---- MODULE Spec2Model ----
(***************************************************************************)
(* ovn-lab-builder: a declarative lab specification is validated           *)
(* (schema.py), expanded into a topology (topology.py) and converged into  *)
(* the OVN northbound database by OvnBuilder.build / OvnBuilder.destroy    *)
(* (ovn_builder.py), driven by the click commands of cli/main.py.          *)
(***************************************************************************)
EXTENDS Integers, Sequences, FiniteSets, TLC

VARIABLES
    entry,      \* "cli": a command of cli/main.py; "api": OvnBuilder called directly
    config,     \* the lab specification (the parsed JSON document)
    topology,   \* <<>> until derived, then <<Topology>> (every command derives it anew)
    nb,         \* the northbound database
    phase,      \* position of the current invocation
    cmd,        \* "build" | "destroy" | "none": the current invocation
    pc,         \* index of the next step of the current build/destroy
    log,        \* events of the current invocation, in order
    exit_code,  \* <<>> while running, <<0>> or <<1>> when the command exited
    hist,       \* past invocations: [cmd, ok, nb0, txn_failed, fault]
    nb0,        \* the database at the start of the current invocation
    faults,     \* commit failures injected so far
    steps       \* the handler calls of the current build/destroy, in order

vars == <<entry, config, topology, nb, phase, cmd, pc, log, exit_code, hist, nb0, faults, steps>>

(***************************************************************************)
(* Bounds of the model.                                                    *)
(***************************************************************************)
MaxRuns == 3        \* invocations per behaviour
MaxFaults == 1      \* failed commits per behaviour
MaxSwitches == 2    \* switch descriptors per specification

\* Python's None / Optional values: <<>> is None, <<v>> is the value v.
NoneV == <<>>
Some(v) == <<v>>
IsNone(o) == o = <<>>
Val(o) == o[1]

\* Python truthiness of Optional[int] / Optional[str] / Optional[list]
TruthyInt(o) == o # <<>> /\ o[1] # 0
TruthyStr(o) == o # <<>> /\ o[1] # ""
TruthySeq(o) == o # <<>> /\ o[1] # <<>>

Min(a, b) == IF a <= b THEN a ELSE b

RECURSIVE Pow2(_)
Pow2(n) == IF n = 0 THEN 1 ELSE 2 * Pow2(n - 1)

(***************************************************************************)
(* String rendering: str(int) and format(int, "02x").                      *)
(***************************************************************************)
DecDigit(d) == CASE d = 0 -> "0" [] d = 1 -> "1" [] d = 2 -> "2" [] d = 3 -> "3"
                 [] d = 4 -> "4" [] d = 5 -> "5" [] d = 6 -> "6" [] d = 7 -> "7"
                 [] d = 8 -> "8" [] d = 9 -> "9"

RECURSIVE Dec(_)
Dec(n) == IF n < 10 THEN DecDigit(n) ELSE Dec(n \div 10) \o DecDigit(n % 10)

HexDigit(d) == CASE d < 10 -> DecDigit(d)
                 [] d = 10 -> "a" [] d = 11 -> "b" [] d = 12 -> "c"
                 [] d = 13 -> "d" [] d = 14 -> "e" [] d = 15 -> "f"

RECURSIVE Hex(_)
Hex(n) == IF n < 16 THEN HexDigit(n) ELSE Hex(n \div 16) \o HexDigit(n % 16)

\* f"{n:02x}": zero-padded to a minimum width of two, never truncated
Hex02(n) == IF n < 0 THEN "-" \o Hex(0 - n)
            ELSE IF n < 16 THEN "0" \o Hex(n) ELSE Hex(n)

(***************************************************************************)
(* IPv4 networks.  An address is its first three octets (a string) and its *)
(* last octet; the model's subnets have prefix lengths 24..32.             *)
(***************************************************************************)
AddrBits == 32

IpStr(hi, lo) == hi \o "." \o Dec(lo)

\* IPv4Network(v) (strict): a ValueError when host bits are set
NetworkOk(sn) == sn.lo % Pow2(AddrBits - sn.plen) = 0

\* str(IPv4Network)
Cidr(sn) == IpStr(sn.hi, sn.lo) \o "/" \o Dec(sn.plen)

NumAddresses(sn) == Pow2(AddrBits - sn.plen)

\* len(list(IPv4Network.hosts())): a /31 yields both addresses, a /32 its one
\* address, any other network all but the network and broadcast addresses
NumHosts(sn) ==
    IF sn.plen = AddrBits - 1 THEN 2
    ELSE IF sn.plen = AddrBits THEN 1
    ELSE NumAddresses(sn) - 2

\* list(IPv4Network.hosts())[i - 1]: the last octet of the i-th host
HostAt(sn, i) ==
    IF sn.plen >= AddrBits - 1 THEN sn.lo + (i - 1) ELSE sn.lo + i

(***************************************************************************)
(* schema.py: validation of the lab specification (pydantic models).       *)
(* A port descriptor is [name, addressing, ip_given, ip]; ip_given says    *)
(* whether the "ip" key is present in the document (ip may then be null).  *)
(***************************************************************************)
HexChars == {"0", "1", "2", "3", "4", "5", "6", "7", "8", "9", "a", "b", "c", "d", "e", "f"}

\* str.lower() on one character
Lower(c) == CASE c = "A" -> "a" [] c = "B" -> "b" [] c = "C" -> "c"
              [] c = "D" -> "d" [] c = "E" -> "e" [] c = "F" -> "f"
              [] OTHER -> c

\* str.split(":") on a sequence of characters: the lengths of the parts
RECURSIVE SplitLens(_, _)
SplitLens(chars, cur) ==
    IF chars = <<>> THEN <<cur>>
    ELSE IF Head(chars) = ":" THEN <<cur>> \o SplitLens(Tail(chars), 0)
    ELSE SplitLens(Tail(chars), cur + 1)

\* VPC.validate_mac_prefix
validate_mac_prefix(chars) ==
    /\ \A i \in 1..Len(chars) : Lower(chars[i]) \in HexChars \cup {":"}
    /\ LET parts == SplitLens(chars, 0) IN
         /\ Len(parts) = 3
         /\ \A i \in 1..Len(parts) : parts[i] = 2

RECURSIVE JoinLower(_)
JoinLower(chars) == IF chars = <<>> THEN "" ELSE Lower(Head(chars)) \o JoinLower(Tail(chars))

\* Port.validate_ip_if_static: a field validator, run only when the key is given
validate_ip_if_static(p) ==
    ~(p.ip_given /\ p.addressing = "static" /\ ~TruthyStr(p.ip))

\* Switch.validate_subnet
validate_subnet(sw) == NetworkOk(sw.subnet)

\* Switch.validate_ports_or_count: `values` holds the declared fields only, so
\* values.get('vpc_port_count') is None
validate_ports_or_count(sw) ==
    LET vpc_port_count == NoneV IN
    /\ ~(sw.ports # NoneV /\ sw.port_count # NoneV)
    /\ ~(sw.ports = NoneV /\ sw.port_count = NoneV /\ vpc_port_count = NoneV)

SwitchValid(sw) ==
    /\ validate_subnet(sw)
    /\ (sw.ports # NoneV => \A i \in 1..Len(Val(sw.ports)) : validate_ip_if_static(Val(sw.ports)[i]))
    /\ validate_ports_or_count(sw)

\* a uniqueness check that compares the names of the switches, not their ids
validate_switch_names(switches) ==
    \A i, j \in 1..Len(switches) : i # j => switches[i].name # switches[j].name

\* LabConfig.validate_switch_ids
validate_switch_ids(switches) ==
    \A i, j \in 1..Len(switches) : i # j => switches[i].id # switches[j].id

\* LabConfig(**config_data) succeeds
LabConfigValid(cfg) ==
    /\ validate_mac_prefix(cfg.vpc.mac_prefix)
    /\ \A i \in 1..Len(cfg.switches) : SwitchValid(cfg.switches[i])
    /\ validate_switch_ids(cfg.switches)

(***************************************************************************)
(* topology.py: the derived objects.                                       *)
(***************************************************************************)
\* a port MAC without the octet of the switch id
PortMac_NoSwitchId(mac_prefix, vpc_id, switch_id, port_index) ==
    mac_prefix \o ":" \o Hex02(vpc_id) \o ":" \o Hex02(port_index)

\* LogicalSwitchPort.mac
PortMac(mac_prefix, vpc_id, switch_id, port_index) ==
    mac_prefix \o ":" \o Hex02(vpc_id) \o ":" \o Hex02(switch_id) \o ":" \o Hex02(port_index)

\* LogicalSwitchPort.port_security
PortSecurity(addressing, ip, mac) ==
    IF addressing = "static" /\ TruthyStr(ip) THEN mac \o " " \o Val(ip) ELSE mac

\* LogicalSwitchPort(...) with its full_name, mac and port_security properties
LogicalSwitchPort(vpc_name, switch_name, port_name, vpc_id, switch_id, port_index, mac_prefix, addressing, ip) ==
    LET mac == PortMac(mac_prefix, vpc_id, switch_id, port_index) IN
    [ port_name     |-> port_name,
      full_name     |-> vpc_name \o "-" \o switch_name \o "-" \o port_name,
      port_index    |-> port_index,
      addressing    |-> addressing,
      ip            |-> ip,
      mac           |-> mac,
      port_security |-> PortSecurity(addressing, ip, mac) ]

\* LogicalSwitch.__init__.  vpc_attrs is the pair (vpc_mac_prefix, vpc_id) that
\* dhcp_server_mac reads: __init__ does not set it, so it is None on a switch
\* made by Topology._build_topology; the fixture of tests/test_ovn_builder.py
\* hands OvnBuilder switches on which these values are resolved.
LogicalSwitch(vpc_name, sw, vpc_attrs) ==
    [ name         |-> sw.name,
      full_name    |-> vpc_name \o "-" \o sw.name,
      id           |-> sw.id,
      type         |-> sw.type,
      subnet       |-> sw.subnet,
      subnet_str   |-> Cidr(sw.subnet),
      dhcp_enable  |-> sw.dhcp_enable,
      routed       |-> sw.routed,
      ports        |-> <<>>,
      dhcp_options |-> NoneV,
      vpc_attrs    |-> vpc_attrs ]

\* router_port_ip giving the gateway of a /31 without its prefix length
router_port_ip_bare(sw) ==
    IF ~sw.routed THEN NoneV
    ELSE IF sw.subnet.plen = AddrBits - 1 THEN Some(IpStr(sw.subnet.hi, sw.subnet.lo))
    ELSE IF NumHosts(sw.subnet) = 0 THEN NoneV
    ELSE Some(IpStr(sw.subnet.hi, HostAt(sw.subnet, 1)) \o "/" \o Dec(sw.subnet.plen))

\* LogicalSwitch.router_port_ip
router_port_ip(sw) ==
    IF ~sw.routed THEN NoneV
    ELSE IF NumHosts(sw.subnet) = 0
         THEN IF sw.subnet.plen = AddrBits - 1
              THEN Some(IpStr(sw.subnet.hi, sw.subnet.lo))
              ELSE NoneV
         ELSE Some(IpStr(sw.subnet.hi, HostAt(sw.subnet, 1)) \o "/" \o Dec(sw.subnet.plen))

\* LogicalSwitch.dhcp_server_mac: [raised, value]; an AttributeError when the
\* switch has no vpc_mac_prefix / vpc_id
dhcp_server_mac(sw) ==
    IF sw.vpc_attrs = NoneV
    THEN [raised |-> TRUE, value |-> NoneV]
    ELSE [raised |-> FALSE,
          value  |-> Some(Val(sw.vpc_attrs).mac_prefix \o ":" \o Hex02(Val(sw.vpc_attrs).vpc_id)
                          \o ":" \o Hex02(sw.id) \o ":00")]

\* LogicalSwitch.router_port_mac: [raised, value]
router_port_mac(sw) ==
    IF ~sw.routed \/ ~sw.dhcp_enable
    THEN [raised |-> FALSE, value |-> NoneV]
    ELSE dhcp_server_mac(sw)

\* list(IPv4Network.hosts()): the last octets of the hosts, in order
Hosts(sn) == [i \in 1..NumHosts(sn) |-> HostAt(sn, i)]

\* usable_ips reserving the first 4 hosts of every DHCP-enabled subnet
usable_ips_always_reserve(sw) ==
    IF sw.subnet.plen = AddrBits - 1 THEN <<sw.subnet.lo, sw.subnet.lo + 1>>
    ELSE IF sw.dhcp_enable
         THEN [i \in 1..(IF NumHosts(sw.subnet) > 4 THEN NumHosts(sw.subnet) - 4 ELSE 0) |->
                  Hosts(sw.subnet)[i + 4]]
         ELSE Hosts(sw.subnet)

\* LogicalSwitch.usable_ips: the last octets of the usable addresses, in order
usable_ips(sw) ==
    IF sw.subnet.plen = AddrBits - 1 THEN <<sw.subnet.lo, sw.subnet.lo + 1>>
    ELSE IF sw.dhcp_enable /\ NumHosts(sw.subnet) > 4
         THEN [i \in 1..(NumHosts(sw.subnet) - 4) |-> Hosts(sw.subnet)[i + 4]]
         ELSE Hosts(sw.subnet)

\* len(LogicalSwitch.usable_ips)
UsableCount(sw) ==
    IF sw.subnet.plen = AddrBits - 1 THEN NumAddresses(sw.subnet)
    ELSE IF sw.dhcp_enable /\ NumHosts(sw.subnet) > 4 THEN NumHosts(sw.subnet) - 4
    ELSE NumHosts(sw.subnet)

\* LogicalSwitch.usable_ips[0] (last octet), for a non-empty pool
FirstUsable(sw) ==
    IF sw.subnet.plen = AddrBits - 1 THEN sw.subnet.lo
    ELSE IF sw.dhcp_enable /\ NumHosts(sw.subnet) > 4 THEN HostAt(sw.subnet, 5)
    ELSE HostAt(sw.subnet, 1)

\* _add_ports_to_switch numbering the ports from 0
add_ports_from_zero(cfg, switch, sc) ==
    IF TruthySeq(sc.ports)
    THEN [i \in 1..Len(Val(sc.ports)) |->
            LogicalSwitchPort(cfg.vpc.name, switch.name, Val(sc.ports)[i].name, cfg.vpc.id,
                              switch.id, i - 1, JoinLower(cfg.vpc.mac_prefix),
                              Val(sc.ports)[i].addressing, Val(sc.ports)[i].ip)]
    ELSE LET port_count == IF TruthyInt(sc.port_count) THEN sc.port_count ELSE cfg.vpc.port_count IN
         IF port_count = NoneV THEN <<>>
         ELSE LET actual == Min(Val(port_count), UsableCount(switch)) IN
              [i \in 1..actual |->
                 LogicalSwitchPort(cfg.vpc.name, switch.name, "lsp" \o Dec(i), cfg.vpc.id,
                                   switch.id, i - 1, JoinLower(cfg.vpc.mac_prefix),
                                   IF switch.dhcp_enable THEN "dynamic" ELSE "unknown", NoneV)]

\* Topology._add_ports_to_switch: the switch's ports
add_ports_to_switch(cfg, switch, sc) ==
    IF TruthySeq(sc.ports)
    THEN [i \in 1..Len(Val(sc.ports)) |->
            LogicalSwitchPort(cfg.vpc.name, switch.name, Val(sc.ports)[i].name, cfg.vpc.id,
                              switch.id, i, JoinLower(cfg.vpc.mac_prefix),
                              Val(sc.ports)[i].addressing, Val(sc.ports)[i].ip)]
    ELSE LET port_count == IF TruthyInt(sc.port_count) THEN sc.port_count ELSE cfg.vpc.port_count IN
         IF port_count = NoneV THEN <<>>
         ELSE LET actual == Min(Val(port_count), UsableCount(switch)) IN
              [i \in 1..actual |->
                 LogicalSwitchPort(cfg.vpc.name, switch.name, "lsp" \o Dec(i), cfg.vpc.id,
                                   switch.id, i, JoinLower(cfg.vpc.mac_prefix),
                                   IF switch.dhcp_enable THEN "dynamic" ELSE "unknown", NoneV)]

\* Topology._setup_dhcp_options: [raised, value]
DnsServer == "8.8.8.8"
LeaseTime == "3600"
setup_dhcp_options(switch) ==
    IF ~switch.dhcp_enable \/ NumHosts(switch.subnet) = 0
    THEN [raised |-> FALSE, value |-> NoneV]
    ELSE LET m == dhcp_server_mac(switch)
             server_ip == IpStr(switch.subnet.hi, HostAt(switch.subnet, 1)) IN
         IF m.raised THEN [raised |-> TRUE, value |-> NoneV]
         ELSE [raised |-> FALSE,
               value  |-> Some([server_id  |-> server_ip,
                                server_mac |-> Val(m.value),
                                router     |-> server_ip,
                                dns_server |-> DnsServer,
                                lease_time |-> LeaseTime])]

\* self.switches[switch.name] = switch on an insertion-ordered dict
DictSet(switches, sw) ==
    IF \E i \in 1..Len(switches) : switches[i].name = sw.name
    THEN [i \in 1..Len(switches) |-> IF switches[i].name = sw.name THEN sw ELSE switches[i]]
    ELSE Append(switches, sw)

\* the switch loop of Topology._build_topology: [raised, switches]
RECURSIVE BuildSwitches(_, _, _, _)
BuildSwitches(cfg, vpc_attrs, i, acc) ==
    IF i > Len(cfg.switches) THEN [raised |-> FALSE, switches |-> acc]
    ELSE LET sc == cfg.switches[i]
             s0 == LogicalSwitch(cfg.vpc.name, sc, vpc_attrs)
             s1 == [s0 EXCEPT !.ports = add_ports_to_switch(cfg, s0, sc)]
             d  == setup_dhcp_options(s1)
         IN IF s1.dhcp_enable /\ d.raised THEN [raised |-> TRUE, switches |-> acc]
            ELSE BuildSwitches(cfg, vpc_attrs, i + 1,
                               DictSet(acc, [s1 EXCEPT !.dhcp_options = d.value]))

\* add_switch without its test of the gateway: an entry for every routed switch
add_switch_unresolved(switches, i, acc) ==
    LET routed == SelectSeq(switches, LAMBDA s : s.routed) IN
    [raised |-> FALSE,
     switch_ports |-> [k \in 1..Len(routed) |->
                          [switch |-> routed[k].name,
                           ip     |-> IF TruthyStr(router_port_ip(routed[k]))
                                      THEN Val(router_port_ip(routed[k])) ELSE "",
                           mac    |-> IF TruthyStr(router_port_mac(routed[k]).value)
                                      THEN Val(router_port_mac(routed[k]).value) ELSE ""]]]

\* LogicalRouter.add_switch over the routed switches: [raised, switch_ports]
RECURSIVE AddSwitches(_, _, _)
AddSwitches(switches, i, acc) ==
    IF i > Len(switches) THEN [raised |-> FALSE, switch_ports |-> acc]
    ELSE LET sw == switches[i] IN
         IF ~sw.routed THEN AddSwitches(switches, i + 1, acc)
         ELSE LET ip == router_port_ip(sw)
                  m  == router_port_mac(sw) IN
              IF m.raised THEN [raised |-> TRUE, switch_ports |-> acc]
              ELSE IF TruthyStr(ip) /\ TruthyStr(m.value)
                   THEN AddSwitches(switches, i + 1,
                                    Append(acc, [switch |-> sw.name, ip |-> Val(ip), mac |-> Val(m.value)]))
                   ELSE AddSwitches(switches, i + 1, acc)

\* Topology(config): [raised, topology]
\* vpc_attrs = NoneV is the code of Topology._build_topology
BuildTopology(cfg, vpc_attrs) ==
    LET b == BuildSwitches(cfg, vpc_attrs, 1, <<>>) IN
    IF b.raised THEN [raised |-> TRUE, topology |-> NoneV]
    ELSE IF \E i \in 1..Len(b.switches) : b.switches[i].routed
         THEN LET r == AddSwitches(b.switches, 1, <<>>) IN
              IF r.raised THEN [raised |-> TRUE, topology |-> NoneV]
              ELSE [raised |-> FALSE,
                    topology |-> Some([vpc_name |-> cfg.vpc.name,
                                       switches |-> b.switches,
                                       router   |-> Some([full_name    |-> cfg.vpc.name \o "-lr",
                                                          switch_ports |-> r.switch_ports])])]
         ELSE [raised |-> FALSE,
               topology |-> Some([vpc_name |-> cfg.vpc.name,
                                  switches |-> b.switches,
                                  router   |-> NoneV])]

\* Topology(lab_config) as cli/main.py calls it
Derive(cfg) == BuildTopology(cfg, NoneV)


(***************************************************************************)
(* The northbound database as OvnBuilder uses it through nb_api: rows by   *)
(* kind, looked up by name (DHCP options by uuid), changed by the          *)
(* operations of one transaction, all or none.                             *)
(***************************************************************************)
OwnerTag == "ovn-lab-builder"

EmptyNb == [lr |-> {}, ls |-> {}, lsp |-> {}, lrp |-> {}, dhcp |-> {}, next_uuid |-> 1]

\* <kind>_get(name).execute(check_error=False): truthy when a row has the name
lr_get(db, name) == \E r \in db.lr : r.name = name
ls_get(db, name) == \E r \in db.ls : r.name = name
lsp_get(db, name) == \E r \in db.lsp : r.name = name
lrp_get(db, name) == \E r \in db.lrp : r.name = name
\* dhcp_options_list().execute(check_error=False)
dhcp_options_list(db) == db.dhcp

\* an operation added to a transaction
Op(op, name, parent, a1, a2, opts) ==
    [op |-> op, name |-> name, parent |-> parent, a1 |-> a1, a2 |-> a2, opts |-> opts]

CreateOps == {"lr_add", "ls_add", "dhcp_options_add", "lsp_add", "lrp_add"}
DeleteOps == {"lr_del", "ls_del", "dhcp_options_del", "lsp_del", "lrp_del"}

\* whether the database accepts the operation (an add of an existing name or
\* under a missing parent, and a change or delete of a missing row, fail)
OpOk(db, o) ==
    CASE o.op = "lr_add" -> ~lr_get(db, o.name)
      [] o.op = "ls_add" -> ~ls_get(db, o.name)
      [] o.op = "dhcp_options_add" -> TRUE
      [] o.op \in {"ls_set_dhcpv4_options", "ls_set_other_config"} -> ls_get(db, o.name)
      [] o.op = "lsp_add" -> ls_get(db, o.parent) /\ ~lsp_get(db, o.name)
      [] o.op \in {"lsp_set_addresses", "lsp_set_port_security", "lsp_set_type", "lsp_set_options"} ->
            lsp_get(db, o.name)
      [] o.op = "lrp_add" -> lr_get(db, o.parent) /\ ~lrp_get(db, o.name)
      [] o.op = "lr_del" -> lr_get(db, o.name)
      [] o.op = "ls_del" -> ls_get(db, o.name)
      [] o.op = "lsp_del" -> lsp_get(db, o.name)
      [] o.op = "lrp_del" -> lrp_get(db, o.name)
      [] o.op = "dhcp_options_del" -> \E r \in db.dhcp : r.uuid = o.name

\* the database after the operation
OpApply(db, o) ==
    CASE o.op = "lr_add" ->
            [db EXCEPT !.lr = @ \cup {[name |-> o.name, tagged |-> o.opts.tagged,
                                       options |-> o.opts.options]}]
      [] o.op = "ls_add" ->
            [db EXCEPT !.ls = @ \cup {[name |-> o.name, tagged |-> o.opts.tagged,
                                       switch_type |-> o.a1, subnet |-> o.a2,
                                       dhcpv4 |-> NoneV, exclude_ips |-> NoneV]}]
      [] o.op = "dhcp_options_add" ->
            [db EXCEPT !.dhcp = @ \cup {[uuid |-> db.next_uuid, cidr |-> o.a1,
                                         options |-> o.opts.options, tagged |-> o.opts.tagged]},
                       !.next_uuid = @ + 1]
      [] o.op = "ls_set_dhcpv4_options" ->
            [db EXCEPT !.ls = {IF r.name = o.name THEN [r EXCEPT !.dhcpv4 = Some(o.opts.uuid)] ELSE r : r \in @}]
      [] o.op = "ls_set_other_config" ->
            [db EXCEPT !.ls = {IF r.name = o.name THEN [r EXCEPT !.exclude_ips = Some(o.a1)] ELSE r : r \in @}]
      [] o.op = "lsp_add" ->
            [db EXCEPT !.lsp = @ \cup {[name |-> o.name, switch |-> o.parent, tagged |-> o.opts.tagged,
                                        addresses |-> NoneV, port_security |-> NoneV,
                                        type |-> "", router_port |-> NoneV]}]
      [] o.op = "lsp_set_addresses" ->
            [db EXCEPT !.lsp = {IF r.name = o.name THEN [r EXCEPT !.addresses = Some(o.a1)] ELSE r : r \in @}]
      [] o.op = "lsp_set_port_security" ->
            [db EXCEPT !.lsp = {IF r.name = o.name THEN [r EXCEPT !.port_security = Some(o.a1)] ELSE r : r \in @}]
      [] o.op = "lsp_set_type" ->
            [db EXCEPT !.lsp = {IF r.name = o.name THEN [r EXCEPT !.type = o.a1] ELSE r : r \in @}]
      [] o.op = "lsp_set_options" ->
            [db EXCEPT !.lsp = {IF r.name = o.name THEN [r EXCEPT !.router_port = Some(o.a1)] ELSE r : r \in @}]
      [] o.op = "lrp_add" ->
            [db EXCEPT !.lrp = @ \cup {[name |-> o.name, router |-> o.parent, mac |-> o.a1,
                                        networks |-> o.a2, tagged |-> o.opts.tagged]}]
      [] o.op = "lr_del" -> [db EXCEPT !.lr = {r \in @ : r.name # o.name}]
      [] o.op = "ls_del" -> [db EXCEPT !.ls = {r \in @ : r.name # o.name}]
      [] o.op = "lsp_del" -> [db EXCEPT !.lsp = {r \in @ : r.name # o.name}]
      [] o.op = "lrp_del" -> [db EXCEPT !.lrp = {r \in @ : r.name # o.name}]
      [] o.op = "dhcp_options_del" -> [db EXCEPT !.dhcp = {r \in @ : r.uuid # o.name}]

\* the operations of one transaction, in order: [ok, db]
RECURSIVE ApplyOps(_, _)
ApplyOps(db, ops) ==
    IF ops = <<>> THEN [ok |-> TRUE, db |-> db]
    ELSE IF ~OpOk(db, Head(ops)) THEN [ok |-> FALSE, db |-> db]
    ELSE ApplyOps(OpApply(db, Head(ops)), Tail(ops))

\* events of an invocation
\* (ok: the commit returned; backend: the backend was reachable)
CallEv(fn, name) ==
    [ev |-> "call", fn |-> fn, name |-> name, ops |-> <<>>, ok |-> TRUE, backend |-> TRUE]
QueryEv(fn, name) ==
    [ev |-> "query", fn |-> fn, name |-> name, ops |-> <<>>, ok |-> TRUE, backend |-> TRUE]
CommitEv(fn, name, ops, ok, backend_ok) ==
    [ev |-> "commit", fn |-> fn, name |-> name, ops |-> ops, ok |-> ok, backend |-> backend_ok]

\* a handler that returns before opening a transaction
Skip(db, events) == [nb |-> db, events |-> events, raised |-> FALSE]

\* txn.commit(): the operations are applied together, or commit raises and
\* nothing is applied; backend_ok = FALSE is a transport/backend failure
Commit(db, fn, name, events, ops, backend_ok) ==
    LET r == ApplyOps(db, ops)
        ok == backend_ok /\ r.ok IN
    [ nb     |-> IF ok THEN r.db ELSE db,
      events |-> Append(events, CommitEv(fn, name, ops, ok, backend_ok)),
      raised |-> ~ok ]

\* a create without the external_ids of the tool
Untagged == [tagged |-> FALSE]
Tagged == [tagged |-> TRUE]

(***************************************************************************)
(* ovn_builder.py: the handlers of OvnBuilder.  Each is the whole method:  *)
(* existence check, transaction, commit.  Result: [nb, events, raised].    *)
(***************************************************************************)
RouterOptions == [always_learn_from_arp_request |-> "false", dynamic_neigh_routers |-> "true"]

_create_logical_router(db, router, backend_ok) ==
    LET name == router.full_name
        ev == <<CallEv("_create_logical_router", name), QueryEv("lr_get", name)>> IN
    IF lr_get(db, name) THEN Skip(db, ev)
    ELSE Commit(db, "_create_logical_router", name, ev,
                <<Op("lr_add", name, "", "", "", [tagged |-> TRUE, options |-> RouterOptions])>>,
                backend_ok)

_create_logical_switch(db, switch, backend_ok) ==
    LET name == switch.full_name
        ev == <<CallEv("_create_logical_switch", name), QueryEv("ls_get", name)>> IN
    IF ls_get(db, name) THEN Skip(db, ev)
    ELSE Commit(db, "_create_logical_switch", name, ev,
                <<Op("ls_add", name, "", switch.type, switch.subnet_str, Tagged)>>,
                backend_ok)

\* ",".join(str(hosts[i]) for i in range(4))
ExcludeIps(sn) ==
    IpStr(sn.hi, HostAt(sn, 1)) \o "," \o IpStr(sn.hi, HostAt(sn, 2)) \o "," \o
    IpStr(sn.hi, HostAt(sn, 3)) \o "," \o IpStr(sn.hi, HostAt(sn, 4))

_create_dhcp_options(db, switch, backend_ok) ==
    LET name == switch.full_name
        ev == <<CallEv("_create_dhcp_options", name)>>
        cidr == Cidr(switch.subnet)
        add == <<Op("dhcp_options_add", cidr, "", cidr, "",
                    [tagged |-> TRUE, options |-> switch.dhcp_options]),
                 Op("ls_set_dhcpv4_options", name, "", "", "", [uuid |-> db.next_uuid])>>
        excl == IF switch.subnet.plen < AddrBits - 1 /\ NumHosts(switch.subnet) >= 4
                THEN <<Op("ls_set_other_config", name, "", ExcludeIps(switch.subnet), "", Tagged)>>
                ELSE <<>> IN
    IF switch.dhcp_options = NoneV THEN Skip(db, ev)
    ELSE Commit(db, "_create_dhcp_options", name, ev, add \o excl, backend_ok)

\* addresses that render every static port as "<mac> <ip>"
PortAddresses_StaticAlways(port) ==
    IF port.addressing = "dynamic" THEN port.mac \o " dynamic"
    ELSE IF port.addressing = "static"
         THEN port.mac \o " " \o (IF TruthyStr(port.ip) THEN Val(port.ip) ELSE "None")
    ELSE "unknown"

\* the addresses written by _create_logical_switch_port
PortAddresses(port) ==
    IF port.addressing = "dynamic" THEN port.mac \o " dynamic"
    ELSE IF port.addressing = "static" /\ TruthyStr(port.ip) THEN port.mac \o " " \o Val(port.ip)
    ELSE "unknown"

_create_logical_switch_port(db, switch, port, backend_ok) ==
    LET name == port.full_name
        ev == <<CallEv("_create_logical_switch_port", name), QueryEv("lsp_get", name)>> IN
    IF lsp_get(db, name) THEN Skip(db, ev)
    ELSE Commit(db, "_create_logical_switch_port", name, ev,
                <<Op("lsp_add", name, switch.full_name, "", "", Tagged),
                  Op("lsp_set_addresses", name, "", PortAddresses(port), "", Tagged),
                  Op("lsp_set_port_security", name, "", port.port_security, "", Tagged)>>,
                backend_ok)

\* the router-side interface named after the switch's full name
RouterPortName_FullName(switch, router) == router.full_name \o "-" \o switch.full_name

RouterPortName(switch, router) == router.full_name \o "-" \o switch.name
SwitchPortName(switch, router) == switch.full_name \o "-" \o router.full_name

\* _connect_switch_to_router raising where the gateway does not resolve
connect_switch_to_router_strict(db, switch, router, backend_ok) ==
    LET router_port_name == RouterPortName(switch, router)
        switch_port_name == SwitchPortName(switch, router)
        router_ip == router_port_ip(switch)
        m == router_port_mac(switch)
        ev0 == <<CallEv("_connect_switch_to_router", switch.full_name)>>
        ev == ev0 \o <<QueryEv("lrp_get", router_port_name), QueryEv("lsp_get", switch_port_name)>>
        existing_router_port == lrp_get(db, router_port_name)
        existing_switch_port == lsp_get(db, switch_port_name)
        rp == IF existing_router_port THEN <<>>
              ELSE <<Op("lrp_add", router_port_name, router.full_name, Val(m.value), Val(router_ip), Tagged)>>
        sp == IF existing_switch_port THEN <<>>
              ELSE <<Op("lsp_add", switch_port_name, switch.full_name, "", "", Tagged),
                     Op("lsp_set_type", switch_port_name, "", "router", "", Tagged),
                     Op("lsp_set_options", switch_port_name, "", router_port_name, "", Tagged),
                     Op("lsp_set_addresses", switch_port_name, "", "router", "", Tagged)>> IN
    IF m.raised \/ ~TruthyStr(router_ip) \/ ~TruthyStr(m.value)
    THEN [nb |-> db, events |-> ev0, raised |-> TRUE]
    ELSE IF existing_router_port /\ existing_switch_port THEN Skip(db, ev)
    ELSE Commit(db, "_connect_switch_to_router", switch.full_name, ev, rp \o sp, backend_ok)

\* _connect_switch_to_router skipping when either interface exists
connect_switch_to_router_either(db, switch, router, backend_ok) ==
    LET router_port_name == RouterPortName(switch, router)
        switch_port_name == SwitchPortName(switch, router)
        router_ip == router_port_ip(switch)
        m == router_port_mac(switch)
        ev0 == <<CallEv("_connect_switch_to_router", switch.full_name)>>
        ev == ev0 \o <<QueryEv("lrp_get", router_port_name), QueryEv("lsp_get", switch_port_name)>>
        existing_router_port == lrp_get(db, router_port_name)
        existing_switch_port == lsp_get(db, switch_port_name) IN
    IF m.raised THEN [nb |-> db, events |-> ev0, raised |-> TRUE]
    ELSE IF ~TruthyStr(router_ip) \/ ~TruthyStr(m.value) THEN Skip(db, ev0)
    ELSE IF existing_router_port \/ existing_switch_port THEN Skip(db, ev)
    ELSE Commit(db, "_connect_switch_to_router", switch.full_name, ev,
                <<Op("lrp_add", router_port_name, router.full_name, Val(m.value), Val(router_ip), Tagged),
                  Op("lsp_add", switch_port_name, switch.full_name, "", "", Tagged),
                  Op("lsp_set_type", switch_port_name, "", "router", "", Tagged),
                  Op("lsp_set_options", switch_port_name, "", router_port_name, "", Tagged),
                  Op("lsp_set_addresses", switch_port_name, "", "router", "", Tagged)>>,
                backend_ok)

_connect_switch_to_router(db, switch, router, backend_ok) ==
    LET router_port_name == RouterPortName(switch, router)
        switch_port_name == SwitchPortName(switch, router)
        router_ip == router_port_ip(switch)
        m == router_port_mac(switch)
        ev0 == <<CallEv("_connect_switch_to_router", switch.full_name)>>
        ev == ev0 \o <<QueryEv("lrp_get", router_port_name), QueryEv("lsp_get", switch_port_name)>>
        existing_router_port == lrp_get(db, router_port_name)
        existing_switch_port == lsp_get(db, switch_port_name)
        rp == IF existing_router_port THEN <<>>
              ELSE <<Op("lrp_add", router_port_name, router.full_name, Val(m.value), Val(router_ip), Tagged)>>
        sp == IF existing_switch_port THEN <<>>
              ELSE <<Op("lsp_add", switch_port_name, switch.full_name, "", "", Tagged),
                     Op("lsp_set_type", switch_port_name, "", "router", "", Tagged),
                     Op("lsp_set_options", switch_port_name, "", router_port_name, "", Tagged),
                     Op("lsp_set_addresses", switch_port_name, "", "router", "", Tagged)>> IN
    IF m.raised THEN [nb |-> db, events |-> ev0, raised |-> TRUE]
    ELSE IF ~TruthyStr(router_ip) \/ ~TruthyStr(m.value) THEN Skip(db, ev0)
    ELSE IF existing_router_port /\ existing_switch_port THEN Skip(db, ev)
    ELSE Commit(db, "_connect_switch_to_router", switch.full_name, ev, rp \o sp, backend_ok)

_delete_logical_router(db, router, backend_ok) ==
    LET name == router.full_name
        ev == <<CallEv("_delete_logical_router", name), QueryEv("lr_get", name)>> IN
    IF ~lr_get(db, name) THEN Skip(db, ev)
    ELSE Commit(db, "_delete_logical_router", name, ev,
                <<Op("lr_del", name, "", "", "", Tagged)>>, backend_ok)

\* _delete_logical_switch without its "if not existing_switch: return"
delete_logical_switch_unchecked(db, switch, backend_ok) ==
    LET name == switch.full_name
        ev == <<CallEv("_delete_logical_switch", name), QueryEv("ls_get", name)>> IN
    Commit(db, "_delete_logical_switch", name, ev,
           <<Op("ls_del", name, "", "", "", Tagged)>>, backend_ok)

_delete_logical_switch(db, switch, backend_ok) ==
    LET name == switch.full_name
        ev == <<CallEv("_delete_logical_switch", name), QueryEv("ls_get", name)>> IN
    IF ~ls_get(db, name) THEN Skip(db, ev)
    ELSE Commit(db, "_delete_logical_switch", name, ev,
                <<Op("ls_del", name, "", "", "", Tagged)>>, backend_ok)

\* the rows the scan of _delete_dhcp_options can stop at: those with the CIDR
DhcpMatches(db, switch) == {r \in dhcp_options_list(db) : r.cidr = Cidr(switch.subnet)}

\* first is the row the scan meets first among the matches (the order of
\* dhcp_options_list is the backend's)
_delete_dhcp_options(db, switch, first, backend_ok) ==
    LET name == switch.full_name
        ev == <<CallEv("_delete_dhcp_options", name), QueryEv("dhcp_options_list", Cidr(switch.subnet))>> IN
    IF DhcpMatches(db, switch) = {} THEN Skip(db, ev)
    ELSE Commit(db, "_delete_dhcp_options", name, ev,
                <<Op("dhcp_options_del", first.uuid, "", "", "", Tagged)>>, backend_ok)

_delete_logical_switch_port(db, port, backend_ok) ==
    LET name == port.full_name
        ev == <<CallEv("_delete_logical_switch_port", name), QueryEv("lsp_get", name)>> IN
    IF ~lsp_get(db, name) THEN Skip(db, ev)
    ELSE Commit(db, "_delete_logical_switch_port", name, ev,
                <<Op("lsp_del", name, "", "", "", Tagged)>>, backend_ok)

\* _disconnect_switch_from_router deleting the two interfaces in a
\* transaction each
disconnect_switch_from_router_two_txns(db, switch, router, backend_ok) ==
    LET router_port_name == RouterPortName(switch, router)
        switch_port_name == SwitchPortName(switch, router)
        ev == <<CallEv("_disconnect_switch_from_router", switch.full_name),
                QueryEv("lrp_get", router_port_name), QueryEv("lsp_get", switch_port_name)>>
        rp == IF lrp_get(db, router_port_name)
              THEN <<Op("lrp_del", router_port_name, "", "", "", Tagged)>> ELSE <<>>
        sp == IF lsp_get(db, switch_port_name)
              THEN <<Op("lsp_del", switch_port_name, "", "", "", Tagged)>> ELSE <<>>
        first == Commit(db, "_disconnect_switch_from_router", switch.full_name, ev, rp, TRUE) IN
    IF first.raised THEN first
    ELSE Commit(first.nb, "_disconnect_switch_from_router", switch.full_name, first.events, sp, backend_ok)

_disconnect_switch_from_router(db, switch, router, backend_ok) ==
    LET router_port_name == RouterPortName(switch, router)
        switch_port_name == SwitchPortName(switch, router)
        ev == <<CallEv("_disconnect_switch_from_router", switch.full_name),
                QueryEv("lrp_get", router_port_name), QueryEv("lsp_get", switch_port_name)>>
        rp == IF lrp_get(db, router_port_name)
              THEN <<Op("lrp_del", router_port_name, "", "", "", Tagged)>> ELSE <<>>
        sp == IF lsp_get(db, switch_port_name)
              THEN <<Op("lsp_del", switch_port_name, "", "", "", Tagged)>> ELSE <<>> IN
    Commit(db, "_disconnect_switch_from_router", switch.full_name, ev, rp \o sp, backend_ok)

(***************************************************************************)
(* OvnBuilder.build / OvnBuilder.destroy: the handler calls of one run, in *)
(* the order of the loops.  A step is [fn, s, p]: handler, switch index,   *)
(* port index (0 when there is none).                                      *)
(***************************************************************************)
Step(fn, s, p) == [fn |-> fn, s |-> s, p |-> p]

RECURSIVE Flatten(_)
Flatten(ss) == IF ss = <<>> THEN <<>> ELSE Head(ss) \o Flatten(Tail(ss))

\* the switch loop of build with the attachment made before the ports
BuildSwitchSteps_AttachFirst(topo, i) ==
    LET sw == topo.switches[i] IN
    <<Step("_create_logical_switch", i, 0)>>
    \o (IF sw.dhcp_enable /\ sw.dhcp_options # NoneV THEN <<Step("_create_dhcp_options", i, 0)>> ELSE <<>>)
    \o (IF sw.routed /\ topo.router # NoneV THEN <<Step("_connect_switch_to_router", i, 0)>> ELSE <<>>)
    \o [j \in 1..Len(sw.ports) |-> Step("_create_logical_switch_port", i, j)]

\* the body of the switch loop of build for switch i
BuildSwitchSteps(topo, i) ==
    LET sw == topo.switches[i] IN
    <<Step("_create_logical_switch", i, 0)>>
    \o (IF sw.dhcp_enable /\ sw.dhcp_options # NoneV THEN <<Step("_create_dhcp_options", i, 0)>> ELSE <<>>)
    \o [j \in 1..Len(sw.ports) |-> Step("_create_logical_switch_port", i, j)]
    \o (IF sw.routed /\ topo.router # NoneV THEN <<Step("_connect_switch_to_router", i, 0)>> ELSE <<>>)

BuildSteps(topo) ==
    (IF topo.router # NoneV THEN <<Step("_create_logical_router", 0, 0)>> ELSE <<>>)
    \o Flatten([i \in 1..Len(topo.switches) |-> BuildSwitchSteps(topo, i)])

\* the second switch loop of destroy without the DHCP options removal
DestroySwitchSteps_NoDhcp(topo, i) ==
    LET sw == topo.switches[i] IN
    [j \in 1..Len(sw.ports) |-> Step("_delete_logical_switch_port", i, j)]
    \o <<Step("_delete_logical_switch", i, 0)>>

\* the body of the second switch loop of destroy for switch i
DestroySwitchSteps(topo, i) ==
    LET sw == topo.switches[i] IN
    [j \in 1..Len(sw.ports) |-> Step("_delete_logical_switch_port", i, j)]
    \o (IF sw.dhcp_enable THEN <<Step("_delete_dhcp_options", i, 0)>> ELSE <<>>)
    \o <<Step("_delete_logical_switch", i, 0)>>

\* destroy with the router deleted before the attachments are detached
DestroySteps_RouterFirst(topo) ==
    (IF topo.router # NoneV THEN <<Step("_delete_logical_router", 0, 0)>> ELSE <<>>)
    \o Flatten([i \in 1..Len(topo.switches) |->
               IF topo.switches[i].routed /\ topo.router # NoneV
               THEN <<Step("_disconnect_switch_from_router", i, 0)>> ELSE <<>>])
    \o Flatten([i \in 1..Len(topo.switches) |-> DestroySwitchSteps(topo, i)])

DestroySteps(topo) ==
    Flatten([i \in 1..Len(topo.switches) |->
               IF topo.switches[i].routed /\ topo.router # NoneV
               THEN <<Step("_disconnect_switch_from_router", i, 0)>> ELSE <<>>])
    \o (IF topo.router # NoneV THEN <<Step("_delete_logical_router", 0, 0)>> ELSE <<>>)
    \o Flatten([i \in 1..Len(topo.switches) |-> DestroySwitchSteps(topo, i)])

(***************************************************************************)
(* The specifications the model is run on.                                 *)
(***************************************************************************)
Chars_e1ccff == <<"e", "1", ":", "c", "c", ":", "f", "f">>
Chars_E1cc == <<"E", "1", ":", "c", "c">>

Vpc(mac_prefix) == [name |-> "vlab", mac_prefix |-> mac_prefix, id |-> 1, port_count |-> NoneV]

PortDesc(name, addressing, ip_given, ip) ==
    [name |-> name, addressing |-> addressing, ip_given |-> ip_given, ip |-> ip]

SwitchDesc(name, id, type, hi, lo, plen, dhcp_enable, routed, port_count, ports) ==
    [name |-> name, id |-> id, type |-> type, subnet |-> [hi |-> hi, lo |-> lo, plen |-> plen],
     dhcp_enable |-> dhcp_enable, routed |-> routed, port_count |-> port_count, ports |-> ports]

\* the switch of the end-to-end scenario (tests/test_ovn_builder.py, mock_topology)
SwLs1 == SwitchDesc("ls1", 1, "normal", "192.168.1", 0, 24, TRUE, TRUE, Some(1), NoneV)
\* a routed point-to-point switch without DHCP, more ports asked than addresses
SwLs2 == SwitchDesc("ls2", 2, "p2p", "192.168.2", 0, 31, FALSE, TRUE, Some(5), NoneV)
\* explicit ports, two of one name; the subnet of ls1
SwLs3 == SwitchDesc("ls3", 3, "mgmt", "192.168.1", 0, 24, TRUE, FALSE, NoneV,
                    Some(<<PortDesc("p1", "static", TRUE, Some("192.168.1.10")),
                           PortDesc("p1", "dynamic", FALSE, NoneV)>>))
\* neither ports nor port_count, and the id of ls1
SwLs4 == SwitchDesc("ls4", 1, "normal", "10.0.0", 0, 30, FALSE, FALSE, NoneV, NoneV)
\* host bits set in the subnet
SwLs5 == SwitchDesc("ls5", 5, "normal", "10.0.1", 1, 24, FALSE, FALSE, Some(1), NoneV)

SwitchPool == {SwLs1, SwLs2, SwLs3, SwLs4, SwLs5}

\* sequences of 1..n distinct descriptors of the pool
RECURSIVE SwitchSeqs(_)
SwitchSeqs(n) ==
    IF n = 0 THEN {<<>>}
    ELSE LET shorter == SwitchSeqs(n - 1) IN
         shorter \cup {Append(q, d) : q \in {x \in shorter : Len(x) = n - 1},
                                      d \in SwitchPool}

Configs ==
    {[vpc |-> Vpc(Chars_e1ccff), switches |-> q] :
        q \in {x \in SwitchSeqs(MaxSwitches) : /\ x # <<>>
                                               /\ \A i, j \in 1..Len(x) : i # j => x[i] # x[j]}}
    \cup {[vpc |-> Vpc(Chars_E1cc), switches |-> <<SwLs2>>]}

\* the switch attributes the fixture of tests/test_ovn_builder.py resolves
FixtureAttrs(cfg) == Some([mac_prefix |-> JoinLower(cfg.vpc.mac_prefix), vpc_id |-> cfg.vpc.id])

\* rows that another tool left under the names and the subnet the first
\* switch of the specification derives (no ownership tag)
ForeignKinds == {{}, {"lr"}, {"lr", "lrp"}, {"ls", "lsp"}, {"dhcp"}}
ForeignNb(cfg, kinds) ==
    LET sw == cfg.switches[1]
        ls_name == cfg.vpc.name \o "-" \o sw.name IN
    [ lr   |-> IF "lr" \in kinds
               THEN {[name |-> cfg.vpc.name \o "-lr", tagged |-> FALSE, options |-> RouterOptions]}
               ELSE {},
      ls   |-> IF "ls" \in kinds
               THEN {[name |-> ls_name, tagged |-> FALSE, switch_type |-> "", subnet |-> "",
                      dhcpv4 |-> NoneV, exclude_ips |-> NoneV]}
               ELSE {},
      lsp  |-> IF "lsp" \in kinds
               THEN {[name |-> ls_name \o "-lsp1", switch |-> ls_name, tagged |-> FALSE,
                      addresses |-> NoneV, port_security |-> NoneV, type |-> "",
                      router_port |-> NoneV]}
               ELSE {},
      lrp  |-> IF "lrp" \in kinds
               THEN {[name |-> cfg.vpc.name \o "-lr-" \o sw.name, router |-> cfg.vpc.name \o "-lr",
                      mac |-> "", networks |-> "", tagged |-> FALSE]}
               ELSE {},
      dhcp |-> IF "dhcp" \in kinds
               THEN {[uuid |-> 1, cidr |-> Cidr(sw.subnet), options |-> NoneV, tagged |-> FALSE]}
               ELSE {},
      next_uuid |-> IF "dhcp" \in kinds THEN 2 ELSE 1 ]

Init ==
    /\ entry \in {"cli", "api"}
    /\ config \in Configs
    /\ entry = "api" => LabConfigValid(config)
    /\ topology = IF entry = "api" THEN BuildTopology(config, FixtureAttrs(config)).topology ELSE NoneV
    /\ \E kinds \in ForeignKinds : nb = ForeignNb(config, kinds)
    /\ phase = "idle"
    /\ cmd = "none"
    /\ pc = 0
    /\ log = <<>>
    /\ exit_code = NoneV
    /\ hist = <<>>
    /\ nb0 = nb
    /\ faults = 0
    /\ steps = <<>>

Topo == Val(topology)
\* the calls builder.build(topology) / builder.destroy(topology) will make
StepsOf(c, topo) == IF c = "build" THEN BuildSteps(topo) ELSE DestroySteps(topo)
CurStep == steps[pc]

\* txn_failed: the invocation ended at a failed commit; fault: the backend
\* failed under it
HistEntry(ok, l) ==
    [cmd |-> cmd, ok |-> ok, nb0 |-> nb0,
     txn_failed |-> \E i \in 1..Len(l) : l[i].ev = "commit" /\ ~l[i].ok,
     fault |-> \E i \in 1..Len(l) : l[i].ev = "commit" /\ ~l[i].backend]

(***************************************************************************)
(* cli/main.py: the build and destroy commands up to the builder call.     *)
(***************************************************************************)
\* the process is started with a subcommand
CliStart(c) ==
    /\ entry = "cli" /\ phase = "idle" /\ Len(hist) < MaxRuns
    /\ cmd' = c /\ phase' = "load" /\ pc' = 0 /\ log' = <<>> /\ exit_code' = NoneV
    /\ nb0' = nb
    /\ UNCHANGED <<entry, config, topology, nb, hist, faults, steps>>

\* a command that connects before it validates
LoadConfig_ConnectFirst ==
    /\ phase = "load"
    /\ phase' = IF LabConfigValid(config) THEN "derive" ELSE "except"
    /\ log' = log \o <<CallEv("Connection", "northbound"), CallEv("Connection", "southbound"),
                       CallEv("load_config", IF LabConfigValid(config) THEN "ok" ELSE "ValueError")>>
    /\ UNCHANGED <<entry, config, topology, nb, cmd, pc, exit_code, hist, nb0, faults, steps>>

\* load_config(config): LabConfig(**config_data) or ValueError
LoadConfig ==
    /\ phase = "load"
    /\ phase' = IF LabConfigValid(config) THEN "derive" ELSE "except"
    /\ log' = Append(log, CallEv("load_config", IF LabConfigValid(config) THEN "ok" ELSE "ValueError"))
    /\ UNCHANGED <<entry, config, topology, nb, cmd, pc, exit_code, hist, nb0, faults, steps>>

\* topology = Topology(lab_config)
DeriveTopology ==
    /\ phase = "derive"
    /\ LET d == Derive(config) IN
         /\ topology' = d.topology
         /\ phase' = IF d.raised THEN "except" ELSE "connect"
         /\ log' = Append(log, CallEv("Topology", IF d.raised THEN "AttributeError" ELSE "ok"))
    /\ UNCHANGED <<entry, config, nb, cmd, pc, exit_code, hist, nb0, faults, steps>>

\* OvnBuilder(...): the two connections; then builder.build / builder.destroy
Connect ==
    /\ phase = "connect"
    /\ phase' = "run" /\ pc' = 1 /\ steps' = StepsOf(cmd, Topo)
    /\ log' = log \o <<CallEv("Connection", "northbound"), CallEv("Connection", "southbound")>>
    /\ UNCHANGED <<entry, config, topology, nb, cmd, exit_code, hist, nb0, faults>>

\* click.echo("... successfully built"): the command ends with exit code 0
CliSuccess ==
    /\ entry = "cli" /\ phase = "returned"
    /\ exit_code' = Some(0) /\ phase' = "idle"
    /\ hist' = Append(hist, HistEntry(TRUE, log))
    /\ UNCHANGED <<entry, config, topology, nb, cmd, pc, log, nb0, faults, steps>>

\* except Exception: click.echo(..., err=True); sys.exit(1)
CliExcept ==
    /\ entry = "cli" /\ phase = "except"
    /\ exit_code' = Some(1) /\ phase' = "idle"
    /\ log' = Append(log, CallEv("click.echo", "stderr"))
    /\ hist' = Append(hist, HistEntry(FALSE, log))
    /\ UNCHANGED <<entry, config, topology, nb, cmd, pc, nb0, faults, steps>>

(***************************************************************************)
(* OvnBuilder.build / destroy called on a Topology object directly.        *)
(***************************************************************************)
ApiCall(c) ==
    /\ entry = "api" /\ phase = "idle" /\ Len(hist) < MaxRuns
    /\ cmd' = c /\ phase' = "run" /\ pc' = 1 /\ log' = <<>>
    /\ nb0' = nb /\ steps' = StepsOf(c, Topo)
    /\ UNCHANGED <<entry, config, topology, nb, exit_code, hist, faults>>

\* the call returns, or its exception reaches the caller
ApiReturn ==
    /\ entry = "api" /\ phase \in {"returned", "except"}
    /\ phase' = "idle"
    /\ hist' = Append(hist, HistEntry(phase = "returned", log))
    /\ UNCHANGED <<entry, config, topology, nb, cmd, pc, log, exit_code, nb0, faults, steps>>

(***************************************************************************)
(* The steps of build and destroy.                                         *)
(***************************************************************************)
AtStep(c, fn) ==
    /\ phase = "run" /\ cmd = c
    /\ pc <= Len(steps)
    /\ CurStep.fn = fn

\* a builder that logs a failed commit and goes on to the next step
Handle_Continue(r, backend_ok) ==
    /\ ~backend_ok => (faults < MaxFaults /\ r.raised /\ r.events[Len(r.events)].ev = "commit")
    /\ nb' = r.nb
    /\ log' = log \o r.events
    /\ phase' = "run"
    /\ pc' = pc + 1
    /\ faults' = IF backend_ok THEN faults ELSE faults + 1
    /\ UNCHANGED <<entry, config, topology, cmd, exit_code, hist, nb0, steps>>

\* the handler's result takes effect; an exception ends the run.  A backend
\* failure is injected only where the handler commits.
Handle(r, backend_ok) ==
    /\ ~backend_ok => (faults < MaxFaults /\ r.raised /\ r.events[Len(r.events)].ev = "commit")
    /\ nb' = r.nb
    /\ log' = log \o r.events
    /\ phase' = IF r.raised THEN "except" ELSE "run"
    /\ pc' = IF r.raised THEN pc ELSE pc + 1
    /\ faults' = IF backend_ok THEN faults ELSE faults + 1
    /\ UNCHANGED <<entry, config, topology, cmd, exit_code, hist, nb0, steps>>

CreateLogicalRouter ==
    /\ AtStep("build", "_create_logical_router")
    /\ \E backend_ok \in BOOLEAN :
         Handle(_create_logical_router(nb, Val(Topo.router), backend_ok), backend_ok)

CreateLogicalSwitch ==
    /\ AtStep("build", "_create_logical_switch")
    /\ \E backend_ok \in BOOLEAN :
         Handle(_create_logical_switch(nb, Topo.switches[CurStep.s], backend_ok), backend_ok)

CreateDhcpOptions ==
    /\ AtStep("build", "_create_dhcp_options")
    /\ \E backend_ok \in BOOLEAN :
         Handle(_create_dhcp_options(nb, Topo.switches[CurStep.s], backend_ok), backend_ok)

CreateLogicalSwitchPort ==
    /\ AtStep("build", "_create_logical_switch_port")
    /\ \E backend_ok \in BOOLEAN :
         Handle(_create_logical_switch_port(nb, Topo.switches[CurStep.s],
                                            Topo.switches[CurStep.s].ports[CurStep.p], backend_ok),
                backend_ok)

ConnectSwitchToRouter ==
    /\ AtStep("build", "_connect_switch_to_router")
    /\ \E backend_ok \in BOOLEAN :
         Handle(_connect_switch_to_router(nb, Topo.switches[CurStep.s], Val(Topo.router), backend_ok),
                backend_ok)

\* logger.info("... built successfully"): build returns
BuildReturn ==
    /\ phase = "run" /\ cmd = "build" /\ pc = Len(steps) + 1
    /\ phase' = "returned"
    /\ UNCHANGED <<entry, config, topology, nb, cmd, pc, log, exit_code, hist, nb0, faults, steps>>

DisconnectSwitchFromRouter ==
    /\ AtStep("destroy", "_disconnect_switch_from_router")
    /\ \E backend_ok \in BOOLEAN :
         Handle(_disconnect_switch_from_router(nb, Topo.switches[CurStep.s], Val(Topo.router), backend_ok),
                backend_ok)

DeleteLogicalRouter ==
    /\ AtStep("destroy", "_delete_logical_router")
    /\ \E backend_ok \in BOOLEAN :
         Handle(_delete_logical_router(nb, Val(Topo.router), backend_ok), backend_ok)

DeleteLogicalSwitchPort ==
    /\ AtStep("destroy", "_delete_logical_switch_port")
    /\ \E backend_ok \in BOOLEAN :
         Handle(_delete_logical_switch_port(nb, Topo.switches[CurStep.s].ports[CurStep.p], backend_ok),
                backend_ok)

DeleteDhcpOptions ==
    /\ AtStep("destroy", "_delete_dhcp_options")
    /\ LET m == DhcpMatches(nb, Topo.switches[CurStep.s]) IN
       \E backend_ok \in BOOLEAN :
         \E first \in (IF m = {} THEN {NoneV} ELSE m) :
            Handle(_delete_dhcp_options(nb, Topo.switches[CurStep.s], first, backend_ok), backend_ok)

DeleteLogicalSwitch ==
    /\ AtStep("destroy", "_delete_logical_switch")
    /\ \E backend_ok \in BOOLEAN :
         Handle(_delete_logical_switch(nb, Topo.switches[CurStep.s], backend_ok), backend_ok)

\* logger.info("... destroyed successfully"): destroy returns
DestroyReturn ==
    /\ phase = "run" /\ cmd = "destroy" /\ pc = Len(steps) + 1
    /\ phase' = "returned"
    /\ UNCHANGED <<entry, config, topology, nb, cmd, pc, log, exit_code, hist, nb0, faults, steps>>

Next ==
    \/ \E c \in {"build", "destroy"} : CliStart(c)
    \/ LoadConfig
    \/ DeriveTopology
    \/ Connect
    \/ CliSuccess
    \/ CliExcept
    \/ \E c \in {"build", "destroy"} : ApiCall(c)
    \/ ApiReturn
    \/ CreateLogicalRouter
    \/ CreateLogicalSwitch
    \/ CreateDhcpOptions
    \/ CreateLogicalSwitchPort
    \/ ConnectSwitchToRouter
    \/ BuildReturn
    \/ DisconnectSwitchFromRouter
    \/ DeleteLogicalRouter
    \/ DeleteLogicalSwitchPort
    \/ DeleteDhcpOptions
    \/ DeleteLogicalSwitch
    \/ DestroyReturn

Spec == Init /\ [][Next]_vars

(***************************************************************************)
(* Vocabulary of the properties.                                           *)
(***************************************************************************)
\* the last invocation that ended, and whether it ended normally
LastHist == hist[Len(hist)]
\* the current invocation (or, between invocations, the last one) raised
Raised == phase = "except" \/ (phase = "idle" /\ hist # <<>> /\ ~LastHist.ok)
\* ... ran to completion
Completed == phase = "returned" \/ (phase = "idle" /\ hist # <<>> /\ LastHist.ok)
\* an invocation is under way
Running == phase \notin {"idle"}
\* the database at the end of the i-th past invocation
EndNb(i) == IF i < Len(hist) THEN hist[i + 1].nb0 ELSE IF phase = "idle" THEN nb ELSE nb0

\* the operations put into transactions by the events l, in order
RECURSIVE OpsOf(_)
OpsOf(l) == IF l = <<>> THEN <<>> ELSE Head(l).ops \o OpsOf(Tail(l))
OpNames(l) == {OpsOf(l)[i].op : i \in 1..Len(OpsOf(l))}

\* a commit failed because the backend failed
BackendFailed(l) == \E i \in 1..Len(l) : l[i].ev = "commit" /\ ~l[i].backend
FailedCommit(l) == \E i \in 1..Len(l) : l[i].ev = "commit" /\ ~l[i].ok

IsEmptyNb(db) == db.lr = {} /\ db.ls = {} /\ db.lsp = {} /\ db.lrp = {} /\ db.dhcp = {}

SwitchIdx == 1..Len(Topo.switches)
HasRouter == Topo.router # NoneV
\* the switches whose router attachment build can make
Attachable(sw) ==
    sw.routed /\ HasRouter /\ TruthyStr(router_port_ip(sw)) /\ TruthyStr(router_port_mac(sw).value)

\* the database without its row identifiers
Shape(db) ==
    [ lr   |-> db.lr,
      ls   |-> {[name |-> r.name, tagged |-> r.tagged, switch_type |-> r.switch_type,
                 subnet |-> r.subnet, bound |-> r.dhcpv4 # NoneV, exclude_ips |-> r.exclude_ips] : r \in db.ls},
      lsp  |-> db.lsp,
      lrp  |-> db.lrp,
      dhcp |-> {[cidr |-> r.cidr, options |-> r.options, tagged |-> r.tagged] : r \in db.dhcp},
      ndhcp |-> Cardinality(db.dhcp) ]

\* one handler call of build, by its step
RunBuildStep(db, topo, st) ==
    CASE st.fn = "_create_logical_router" -> _create_logical_router(db, Val(topo.router), TRUE)
      [] st.fn = "_create_logical_switch" -> _create_logical_switch(db, topo.switches[st.s], TRUE)
      [] st.fn = "_create_dhcp_options" -> _create_dhcp_options(db, topo.switches[st.s], TRUE)
      [] st.fn = "_create_logical_switch_port" ->
            _create_logical_switch_port(db, topo.switches[st.s], topo.switches[st.s].ports[st.p], TRUE)
      [] st.fn = "_connect_switch_to_router" ->
            _connect_switch_to_router(db, topo.switches[st.s], Val(topo.router), TRUE)

\* the database one build without failures leaves, started on db
RECURSIVE RunBuild(_, _, _)
RunBuild(db, topo, sts) ==
    IF sts = <<>> THEN db ELSE RunBuild(RunBuildStep(db, topo, Head(sts)).nb, topo, Tail(sts))

(***************************************************************************)
(* C1.  Idempotent build: a build that follows a completed build of the    *)
(* same topology issues no create operation of any kind.                   *)
(***************************************************************************)
C1_SecondBuildCreatesNothing ==
    (cmd = "build" /\ phase \in {"run", "returned", "except"} /\ hist # <<>>
        /\ LastHist.cmd = "build" /\ LastHist.ok)
    => OpNames(log) \cap CreateOps = {}

(***************************************************************************)
(* C2.  Build recovery: a build interrupted by a failed commit, run again  *)
(* to completion, raises no error and leaves the database one              *)
(* uninterrupted build from the same start leaves, with no duplicate.      *)
(***************************************************************************)
C2_RebuildEqualsOneBuild ==
    \A i \in 1..(Len(hist) - 1) :
        (hist[i].cmd = "build" /\ hist[i].txn_failed
            /\ hist[i + 1].cmd = "build" /\ ~hist[i + 1].fault)
        => /\ hist[i + 1].ok
           /\ Shape(EndNb(i + 1)) = Shape(RunBuild(hist[i].nb0, Topo, BuildSteps(Topo)))

\* the counterpart of C1 without the DHCP options step: no create operation
\* other than the DHCP options triple is issued by the second build
SecondBuildCreatesOnlyDhcp ==
    (cmd = "build" /\ phase \in {"run", "returned", "except"} /\ hist # <<>>
        /\ LastHist.cmd = "build" /\ LastHist.ok)
    => OpNames(log) \cap CreateOps
          \subseteq {"dhcp_options_add", "ls_set_dhcpv4_options", "ls_set_other_config"}

\* the builder is at work on a derived topology, or has ended
InRun(c) == cmd = c /\ phase \in {"run", "returned", "except"} /\ topology # NoneV

\* no row under a name the topology derives, no DHCP options under a CIDR
Absent(db) ==
    /\ HasRouter => ~lr_get(db, Val(Topo.router).full_name)
    /\ \A i \in SwitchIdx :
         LET sw == Topo.switches[i] IN
         /\ ~ls_get(db, sw.full_name)
         /\ \A j \in 1..Len(sw.ports) : ~lsp_get(db, sw.ports[j].full_name)
         /\ DhcpMatches(db, sw) = {}
         /\ HasRouter => /\ ~lrp_get(db, RouterPortName(sw, Val(Topo.router)))
                         /\ ~lsp_get(db, SwitchPortName(sw, Val(Topo.router)))

(***************************************************************************)
(* C3.  Idempotent destroy: a destroy of a topology none of whose objects  *)
(* exists issues no delete operation, and raises only if the backend       *)
(* itself fails.                                                           *)
(***************************************************************************)
C3_DestroyOfNothingDeletesNothing ==
    (InRun("destroy") /\ Absent(nb0))
    => /\ OpNames(log) \cap DeleteOps = {}
       /\ nb = nb0
       /\ phase = "except" => BackendFailed(log)

\* a destroy of a topology with router, DHCP and a routed switch ran to its
\* end on a database that holds none of its objects
C3_Witness ==
    /\ InRun("destroy") /\ phase = "returned" /\ Absent(nb0)
    /\ HasRouter
    /\ \E i \in SwitchIdx : Topo.switches[i].dhcp_enable /\ Topo.switches[i].routed
    /\ \E k \in 1..Len(log) : log[k].ev = "commit" /\ log[k].fn = "_disconnect_switch_from_router"

(***************************************************************************)
(* C4.  Round trip: a completed build from the empty database followed by  *)
(* a completed destroy of the same topology leaves the database empty.     *)
(***************************************************************************)
C4_BuildDestroyRoundTrip ==
    \A i \in 1..(Len(hist) - 1) :
        (hist[i].cmd = "build" /\ hist[i].ok /\ IsEmptyNb(hist[i].nb0)
            /\ hist[i + 1].cmd = "destroy" /\ hist[i + 1].ok)
        => IsEmptyNb(EndNb(i + 1))

\* such a round trip of a topology with router, attachment and DHCP options
C4_Witness ==
    /\ Len(hist) >= 2
    /\ hist[1].cmd = "build" /\ hist[1].ok /\ IsEmptyNb(hist[1].nb0)
    /\ hist[2].cmd = "destroy" /\ hist[2].ok
    /\ hist[2].nb0.lr # {} /\ hist[2].nb0.lrp # {} /\ hist[2].nb0.dhcp # {}
    /\ hist[2].nb0.lsp # {} /\ hist[2].nb0.ls # {}
    /\ IsEmptyNb(EndNb(2))

\* the rows of the ports of switch sw that are not attachments
PortRows(db, sw) == {r \in db.lsp : r.switch = sw.full_name /\ r.type = ""}
\* the names of the Logical Ports of sw
PortNames(sw) == {sw.ports[j].full_name : j \in 1..Len(sw.ports)}

(***************************************************************************)
(* C5.  Build completeness: a build completed from the empty database      *)
(* leaves exactly the derived topology: the router iff derived, one switch *)
(* per Logical Switch, one port row per Logical Port on its own switch,    *)
(* one DHCP options record bound to each switch with DHCP options, both    *)
(* attachment interfaces of each attachable switch, and nothing else.      *)
(***************************************************************************)
C5_BuildExact ==
    (InRun("build") /\ phase = "returned" /\ IsEmptyNb(nb0))
    => /\ {r.name : r \in nb.lr} = (IF HasRouter THEN {Val(Topo.router).full_name} ELSE {})
       /\ {r.name : r \in nb.ls} = {Topo.switches[i].full_name : i \in SwitchIdx}
       /\ Cardinality(nb.ls) = Len(Topo.switches)
       /\ \A i \in SwitchIdx :
            LET sw == Topo.switches[i] IN
            /\ Cardinality(PortRows(nb, sw)) = Len(sw.ports)
            /\ \A j \in 1..Len(sw.ports) :
                 \E r \in PortRows(nb, sw) :
                    /\ r.name = sw.ports[j].full_name
                    /\ r.addresses = Some(PortAddresses(sw.ports[j]))
                    /\ r.port_security = Some(sw.ports[j].port_security)
            /\ \A r \in nb.ls : r.name = sw.full_name =>
                 IF sw.dhcp_options # NoneV
                 THEN \E d \in nb.dhcp : r.dhcpv4 = Some(d.uuid) /\ d.cidr = Cidr(sw.subnet)
                                          /\ d.options = sw.dhcp_options
                 ELSE r.dhcpv4 = NoneV
            /\ Attachable(sw) <=> lrp_get(nb, RouterPortName(sw, Val(Topo.router)))
            /\ Attachable(sw) <=> lsp_get(nb, SwitchPortName(sw, Val(Topo.router)))
       /\ Cardinality(nb.dhcp) = Cardinality({i \in SwitchIdx : Topo.switches[i].dhcp_options # NoneV})
       /\ Cardinality(nb.lrp) = Cardinality({i \in SwitchIdx : Attachable(Topo.switches[i])})
       /\ Cardinality(nb.lsp) = Cardinality({r \in nb.lsp : r.type = ""}) + Cardinality(nb.lrp)
       /\ \A r \in nb.lsp : r.type = "" => \E i \in SwitchIdx : r \in PortRows(nb, Topo.switches[i])

\* C5 for the topologies whose port names are distinct within each switch
BuildExactDistinctNames ==
    (InRun("build")
        /\ \A i \in SwitchIdx : Cardinality(PortNames(Topo.switches[i])) = Len(Topo.switches[i].ports))
    => C5_BuildExact

\* the untagged rows of db0 are rows of db
UntaggedKept(db0, db) ==
    /\ {r \in db0.lr : ~r.tagged} \subseteq db.lr
    /\ {r \in db0.ls : ~r.tagged} \subseteq db.ls
    /\ {r \in db0.lsp : ~r.tagged} \subseteq db.lsp
    /\ {r \in db0.lrp : ~r.tagged} \subseteq db.lrp
    /\ {r \in db0.dhcp : ~r.tagged} \subseteq db.dhcp

(***************************************************************************)
(* C6.  Ownership scope: destroy deletes no object that does not carry     *)
(* the ownership tag, whatever its name or CIDR.                           *)
(***************************************************************************)
C6_DestroyKeepsUntagged ==
    InRun("destroy") => UntaggedKept(nb0, nb)

BuildFns ==
    {"_create_logical_router", "_create_logical_switch", "_create_dhcp_options",
     "_create_logical_switch_port", "_connect_switch_to_router"}
DestroyFns ==
    {"_disconnect_switch_from_router", "_delete_logical_router", "_delete_logical_switch_port",
     "_delete_dhcp_options", "_delete_logical_switch"}

IsHandlerCall(e) == e.ev = "call" /\ e.fn \in BuildFns \cup DestroyFns
\* the handler calls of the invocation, in order
Calls(l) == SelectSeq(l, IsHandlerCall)

\* the switch a handler call is about (0: the router)
SwOf(e) ==
    IF e.fn \in {"_create_logical_router", "_delete_logical_router"} THEN 0
    ELSE IF e.fn \in {"_create_logical_switch_port", "_delete_logical_switch_port"}
         THEN CHOOSE i \in SwitchIdx : e.name \in PortNames(Topo.switches[i])
         ELSE CHOOSE i \in SwitchIdx : e.name = Topo.switches[i].full_name

\* the positions of the calls of fn about switch i
CallsAt(c, fn, i) == {a \in 1..Len(c) : c[a].fn = fn /\ SwOf(c[a]) = i}

BuildRank(fn) ==
    CASE fn = "_create_logical_router" -> 0
      [] fn = "_create_logical_switch" -> 1
      [] fn = "_create_dhcp_options" -> 2
      [] fn = "_create_logical_switch_port" -> 3
      [] fn = "_connect_switch_to_router" -> 4

\* the k-th port call about switch i is about the k-th port of the switch
PortOrder(c, fn, i) ==
    \A a \in CallsAt(c, fn, i) :
        c[a].name = Topo.switches[i].ports[Cardinality({b \in CallsAt(c, fn, i) : b <= a})].full_name

(***************************************************************************)
(* C7.  Build order: the router call, if any, comes first; the calls of a  *)
(* switch come as switch, DHCP options, ports in port order, attachment;   *)
(* the switches come in topology order, one after the other; a completed   *)
(* build has made every call the topology asks for, once.                  *)
(***************************************************************************)
C7_BuildOrder ==
    InRun("build") =>
    LET c == Calls(log) IN
    /\ \A a \in 1..Len(c) : c[a].fn \in BuildFns
    /\ (HasRouter /\ c # <<>>) => c[1].fn = "_create_logical_router"
    /\ \A a, b \in 1..Len(c) :
         a < b => /\ SwOf(c[a]) <= SwOf(c[b])
                  /\ c[b].fn # "_create_logical_router"
                  /\ SwOf(c[a]) = SwOf(c[b]) =>
                       /\ BuildRank(c[a].fn) <= BuildRank(c[b].fn)
                       /\ BuildRank(c[a].fn) = BuildRank(c[b].fn) =>
                            c[a].fn = "_create_logical_switch_port"
    /\ \A i \in SwitchIdx : PortOrder(c, "_create_logical_switch_port", i)
    /\ phase = "returned" =>
         /\ HasRouter <=> (\E a \in 1..Len(c) : c[a].fn = "_create_logical_router")
         /\ \A i \in SwitchIdx :
              LET sw == Topo.switches[i] IN
              /\ Cardinality(CallsAt(c, "_create_logical_switch", i)) = 1
              /\ Cardinality(CallsAt(c, "_create_dhcp_options", i)) =
                   (IF sw.dhcp_enable /\ sw.dhcp_options # NoneV THEN 1 ELSE 0)
              /\ Cardinality(CallsAt(c, "_create_logical_switch_port", i)) = Len(sw.ports)
              /\ Cardinality(CallsAt(c, "_connect_switch_to_router", i)) =
                   (IF sw.routed /\ HasRouter THEN 1 ELSE 0)

\* a completed build of two switches, the first with DHCP options, two or
\* more ports in all and an attachment
C7_Witness ==
    /\ InRun("build") /\ phase = "returned"
    /\ Len(Topo.switches) = 2
    /\ \E a, b, d, e \in 1..Len(Calls(log)) :
         /\ Calls(log)[a].fn = "_create_dhcp_options"
         /\ Calls(log)[b].fn = "_create_logical_switch_port" /\ a < b
         /\ Calls(log)[d].fn = "_connect_switch_to_router" /\ b < d
         /\ Calls(log)[e].fn = "_create_logical_switch" /\ d < e

\* 1: detach, 2: router, 3: the second switch loop
DestroyPhase(fn) ==
    CASE fn = "_disconnect_switch_from_router" -> 1
      [] fn = "_delete_logical_router" -> 2
      [] OTHER -> 3
DestroyRank(fn) ==
    CASE fn = "_delete_logical_switch_port" -> 1
      [] fn = "_delete_dhcp_options" -> 2
      [] fn = "_delete_logical_switch" -> 3
      [] OTHER -> 0

(***************************************************************************)
(* C8.  Destroy order: every detach precedes the router deletion, which    *)
(* precedes every port, DHCP options and switch deletion; the ports of a   *)
(* switch are deleted before its DHCP options, and these before the        *)
(* switch; a completed destroy has made every call the topology asks for.  *)
(***************************************************************************)
C8_DestroyOrder ==
    InRun("destroy") =>
    LET c == Calls(log) IN
    /\ \A a \in 1..Len(c) : c[a].fn \in DestroyFns
    /\ \A a, b \in 1..Len(c) :
         a < b => /\ DestroyPhase(c[a].fn) <= DestroyPhase(c[b].fn)
                  /\ DestroyPhase(c[a].fn) = 2 => DestroyPhase(c[b].fn) = 3
                  /\ (DestroyPhase(c[a].fn) = 3 /\ SwOf(c[a]) = SwOf(c[b])) =>
                       /\ DestroyRank(c[a].fn) <= DestroyRank(c[b].fn)
                       /\ DestroyRank(c[a].fn) = DestroyRank(c[b].fn) =>
                            c[a].fn = "_delete_logical_switch_port"
    /\ (\E a \in 1..Len(c) : DestroyPhase(c[a].fn) >= 2) =>
         \A i \in SwitchIdx :
            Cardinality(CallsAt(c, "_disconnect_switch_from_router", i)) =
               (IF Topo.switches[i].routed /\ HasRouter THEN 1 ELSE 0)
    /\ (\E a \in 1..Len(c) : DestroyPhase(c[a].fn) = 3) =>
         (HasRouter <=> (\E a \in 1..Len(c) : c[a].fn = "_delete_logical_router"))
    /\ \A i \in SwitchIdx :
         /\ PortOrder(c, "_delete_logical_switch_port", i)
         /\ CallsAt(c, "_delete_dhcp_options", i) # {} =>
              Cardinality(CallsAt(c, "_delete_logical_switch_port", i)) = Len(Topo.switches[i].ports)
         /\ CallsAt(c, "_delete_logical_switch", i) # {} =>
              /\ Cardinality(CallsAt(c, "_delete_logical_switch_port", i)) = Len(Topo.switches[i].ports)
              /\ Cardinality(CallsAt(c, "_delete_dhcp_options", i)) =
                   (IF Topo.switches[i].dhcp_enable THEN 1 ELSE 0)
    /\ phase = "returned" =>
         \A i \in SwitchIdx : Cardinality(CallsAt(c, "_delete_logical_switch", i)) = 1

\* a completed destroy of two switches with a detach, the router deletion,
\* a port deletion, a DHCP options deletion and a switch deletion in a row
C8_Witness ==
    /\ InRun("destroy") /\ phase = "returned"
    /\ Len(Topo.switches) = 2
    /\ \E a, b, d, e, f \in 1..Len(Calls(log)) :
         /\ Calls(log)[a].fn = "_disconnect_switch_from_router"
         /\ Calls(log)[b].fn = "_delete_logical_router" /\ a < b
         /\ Calls(log)[d].fn = "_delete_logical_switch_port" /\ b < d
         /\ Calls(log)[e].fn = "_delete_dhcp_options" /\ d < e
         /\ Calls(log)[f].fn = "_delete_logical_switch" /\ e < f

\* the events of the builder: handler calls, queries and commits
IsBuilderEv(e) == IsHandlerCall(e) \/ e.ev \in {"query", "commit"}

(***************************************************************************)
(* C9.  A failed commit is fatal: it is the last event of the builder in   *)
(* its invocation (no retry, no later object), the invocation ends with    *)
(* the exception, the command line reports it on standard error and exits  *)
(* with 1; exit code 0 means the run completed without a failed commit.    *)
(***************************************************************************)
C9_CommitFailureIsFatal ==
    /\ \A i \in 1..Len(log) :
         (log[i].ev = "commit" /\ ~log[i].ok) =>
            /\ \A j \in (i + 1)..Len(log) : ~IsBuilderEv(log[j])
            /\ phase \in {"except", "idle"}
            /\ pc <= Len(steps)
            /\ phase = "idle" =>
                 /\ hist # <<>> /\ ~LastHist.ok
                 /\ entry = "cli" => /\ exit_code = Some(1)
                                     /\ log[Len(log)] = CallEv("click.echo", "stderr")
    /\ exit_code = Some(0) =>
         /\ pc = Len(steps) + 1
         /\ ~FailedCommit(log)
         /\ hist # <<>> /\ LastHist.ok

\* the command line exited with 1 after a commit failed with steps left
C9_Witness ==
    /\ entry = "cli" /\ phase = "idle" /\ exit_code = Some(1)
    /\ FailedCommit(log)
    /\ pc < Len(steps)

\* a run of the command line that completed: exit code 0
C9_WitnessExit0 ==
    entry = "cli" /\ exit_code = Some(0) /\ pc = Len(steps) + 1

IsNetworkEv(e) == e.ev \in {"query", "commit"} \/ (e.ev = "call" /\ e.fn = "Connection") \/ IsHandlerCall(e)

(***************************************************************************)
(* C10.  Validation precedes the network: a command on a specification     *)
(* that fails validation opens no connection, issues no query and no       *)
(* transaction, changes nothing and exits with 1; a connection, query or   *)
(* transaction is preceded by the completed validation and derivation.     *)
(***************************************************************************)
C10_ValidationBeforeNetwork ==
    entry = "cli" =>
    /\ ~LabConfigValid(config) =>
         /\ \A i \in 1..Len(log) : ~IsNetworkEv(log[i])
         /\ nb = nb0
         /\ phase \in {"idle", "load", "except"}
         /\ (phase = "idle" /\ hist # <<>>) => (exit_code = Some(1) /\ ~LastHist.ok)
    /\ \A i \in 1..Len(log) :
         IsNetworkEv(log[i]) =>
            \E j, k \in 1..(i - 1) :
               /\ j < k
               /\ log[j] = CallEv("load_config", "ok")
               /\ log[k] = CallEv("Topology", "ok")

\* a command on an invalid specification has exited with 1
C10_Witness ==
    /\ entry = "cli" /\ ~LabConfigValid(config)
    /\ phase = "idle" /\ exit_code = Some(1)
    /\ log = <<CallEv("load_config", "ValueError"), CallEv("click.echo", "stderr")>>

\* a command on a valid specification has queried the database
C10_WitnessValid ==
    /\ entry = "cli" /\ LabConfigValid(config)
    /\ \E i \in 1..Len(log) : log[i].ev = "query"

\* the positions in l of the attachment calls about a switch of the
\* topology whose gateway IP or gateway MAC does not resolve
UnresolvedAttach(l) ==
    {a \in 1..Len(l) :
        /\ l[a].ev = "call" /\ l[a].fn = "_connect_switch_to_router"
        /\ \E i \in SwitchIdx : /\ Topo.switches[i].full_name = l[a].name
                                /\ Topo.switches[i].routed
                                /\ ~Attachable(Topo.switches[i])}

(***************************************************************************)
(* C11.  Missing prerequisite: the attachment call about a routed switch   *)
(* whose gateway IP or MAC does not resolve makes no lookup and no         *)
(* transaction and raises nothing: what follows it is the next handler     *)
(* call, and a build that raised did so at a failed commit.                *)
(***************************************************************************)
C11_UnresolvedGatewayIsNoOp ==
    InRun("build") =>
    /\ \A a \in UnresolvedAttach(log) :
         /\ a < Len(log) => IsHandlerCall(log[a + 1])
         /\ a = Len(log) => phase \in {"run", "returned"}
    /\ (UnresolvedAttach(log) # {} /\ phase = "except") => log[Len(log)].ev = "commit"

\* a completed build whose first switch is routed without a resolvable
\* gateway; the steps of a second switch followed its attachment call
C11_Witness ==
    /\ InRun("build") /\ phase = "returned"
    /\ Len(Topo.switches) = 2
    /\ \E a \in UnresolvedAttach(log) :
         /\ log[a].name = Topo.switches[1].full_name
         /\ \E b \in (a + 1)..Len(log) : log[b].ev = "commit" /\ log[b].ok
    /\ ~lrp_get(nb, RouterPortName(Topo.switches[1], Val(Topo.router)))

\* every row the tool created is whole: a port has its addresses and port
\* security, a switch-side router port its type, router-port option and
\* address, a DHCP options record a switch bound to it
ObjectsWhole(db) ==
    /\ \A r \in db.lsp :
         r.tagged => /\ r.addresses # NoneV
                     /\ r.type = "" => r.port_security # NoneV
                     /\ r.type = "router" => (r.router_port # NoneV /\ r.addresses = Some("router"))
    /\ HasRouter =>
         \A i \in SwitchIdx : \A r \in db.lsp :
            (r.tagged /\ r.name = SwitchPortName(Topo.switches[i], Val(Topo.router)))
            => (r.type = "router"
                /\ r.router_port = Some(RouterPortName(Topo.switches[i], Val(Topo.router))))
    /\ \A d \in db.dhcp :
         d.tagged => \E r \in db.ls : r.dhcpv4 = Some(d.uuid)

(***************************************************************************)
(* C12.  Per-object atomicity: in every database state of a build, also    *)
(* the one a failed commit leaves, no port created by the tool lacks its   *)
(* addresses or port security, no DHCP options record created by the tool  *)
(* is unbound from its switch, and no switch-side router port lacks its    *)
(* type, router-port option or address.                                    *)
(***************************************************************************)
C12_NoPartialObject ==
    InRun("build") => ObjectsWhole(nb)

\* C12 for the first invocation on a database the tool has not touched
NoPartialObjectFirstBuild ==
    (InRun("build") /\ hist = <<>>) => ObjectsWhole(nb)

\* the events the step under way appends to the log
StepEvents == SubSeq(log', Len(log) + 1, Len(log'))
\* build is making its attachment call about CurSwitch
CurSwitch == Topo.switches[CurStep.s]
IsConnectStep ==
    /\ phase = "run" /\ cmd = "build" /\ pc <= Len(steps)
    /\ CurStep.fn = "_connect_switch_to_router"
    /\ log' # log
RouterSideExists == lrp_get(nb, RouterPortName(CurSwitch, Val(Topo.router)))
SwitchSideExists == lsp_get(nb, SwitchPortName(CurSwitch, Val(Topo.router)))

(***************************************************************************)
(* C13.  Attachment, as claimed: if either the router-side or the          *)
(* switch-side interface exists, the attachment step issues no create      *)
(* operation and changes nothing.                                          *)
(***************************************************************************)
C13_EitherExistsSkips ==
    [][(IsConnectStep /\ (RouterSideExists \/ SwitchSideExists))
        => (OpNames(StepEvents) \cap CreateOps = {} /\ nb' = nb)]_vars

(***************************************************************************)
(* C13, amended.  The two interfaces are looked up independently; the      *)
(* step is skipped as a whole only when both exist; otherwise one          *)
(* transaction creates exactly the interfaces that are missing.            *)
(***************************************************************************)
C13_OnlyMissingSideCreated ==
    [][(IsConnectStep /\ Attachable(CurSwitch))
        => LET ops == OpNames(StepEvents)
               commits == {k \in 1..Len(StepEvents) : StepEvents[k].ev = "commit"} IN
           /\ \E k \in 1..Len(StepEvents) : StepEvents[k] = QueryEv("lrp_get", RouterPortName(CurSwitch, Val(Topo.router)))
           /\ \E k \in 1..Len(StepEvents) : StepEvents[k] = QueryEv("lsp_get", SwitchPortName(CurSwitch, Val(Topo.router)))
           /\ (RouterSideExists /\ SwitchSideExists) => (commits = {} /\ nb' = nb)
           /\ ~(RouterSideExists /\ SwitchSideExists) => Cardinality(commits) = 1
           /\ ("lrp_add" \in ops) <=> ~RouterSideExists
           /\ ("lsp_add" \in ops) <=> ~SwitchSideExists
           /\ ("lsp_set_type" \in ops) <=> ~SwitchSideExists
           /\ ("lsp_set_options" \in ops) <=> ~SwitchSideExists]_vars

\* a build found the router-side interface alone and has created the
\* switch-side interface beside it
C13_Witness ==
    /\ InRun("build") /\ HasRouter
    /\ \E r \in nb0.lrp : r.name = RouterPortName(Topo.switches[1], Val(Topo.router))
    /\ ~lsp_get(nb0, SwitchPortName(Topo.switches[1], Val(Topo.router)))
    /\ \E r \in nb.lsp : /\ r.name = SwitchPortName(Topo.switches[1], Val(Topo.router))
                         /\ r.tagged /\ r.type = "router"
    /\ \E k \in 1..Len(log) : /\ log[k].ev = "commit" /\ log[k].fn = "_connect_switch_to_router"
                              /\ Len(log[k].ops) = 4

(***************************************************************************)
(* The command up to the connection, on a wider set of specifications:     *)
(* load_config (validation), Topology (derivation), the error exit.        *)
(***************************************************************************)
\* port descriptors: static with an address, with the "ip" key missing,
\* with a null and with an empty address; dynamic and unknown with and
\* without an address
PortPool ==
    { PortDesc("p1", "static", TRUE, Some("192.168.1.10")),
      PortDesc("p1", "static", FALSE, NoneV),
      PortDesc("p1", "static", TRUE, NoneV),
      PortDesc("p1", "static", TRUE, Some("")),
      PortDesc("p1", "dynamic", FALSE, NoneV),
      PortDesc("p1", "dynamic", TRUE, Some("192.168.1.11")),
      PortDesc("p1", "unknown", FALSE, NoneV),
      PortDesc("p1", "unknown", TRUE, NoneV) }

\* "ports": missing, the empty list, a list of one descriptor, or a list of two
PortsChoices ==
    {NoneV, Some(<<>>)} \cup {Some(<<p>>) : p \in PortPool}
    \cup {Some(<<PortDesc("p1", "dynamic", FALSE, NoneV),
                 PortDesc("p2", "static", TRUE, Some("192.168.1.10"))>>)}
\* "port_count": missing, or a count (0, within the pool, above a /31 and a
\* /30 pool, above a /24 pool)
PortCountChoices == {NoneV, Some(0), Some(1), Some(5), Some(300)}
\* "subnet": a /24, a /31, a /30, and a /24 with host bits set
SubnetChoices ==
    { [hi |-> "192.168.1", lo |-> 0, plen |-> 24], [hi |-> "192.168.2", lo |-> 0, plen |-> 31],
      [hi |-> "10.0.0", lo |-> 0, plen |-> 30], [hi |-> "10.0.1", lo |-> 1, plen |-> 24] }
\* "id": the ends of the two-hex-digit range and the first value above it
IdChoices == {0, 255, 256}
\* vpc "port_count": missing or a default
VpcPortCountChoices == {NoneV, Some(3)}

\* specifications of one switch
OneSwitchConfigs ==
    { [vpc |-> [Vpc(Chars_e1ccff) EXCEPT !.port_count = vpc_pc],
       switches |-> <<[name |-> "ls1", id |-> id, type |-> "normal", subnet |-> sn,
                       dhcp_enable |-> dhcp, routed |-> routed,
                       port_count |-> pc_, ports |-> ports]>>] :
        vpc_pc \in VpcPortCountChoices, id \in IdChoices, sn \in SubnetChoices,
        dhcp \in BOOLEAN, routed \in BOOLEAN,
        pc_ \in PortCountChoices, ports \in PortsChoices }

\* specifications of two switches, each valid on its own, with equal or
\* different names and ids
TwoSwitchConfigs ==
    { [vpc |-> Vpc(Chars_e1ccff),
       switches |-> <<SwitchDesc("ls1", 1, "normal", "192.168.1", 0, 24, FALSE, r1, Some(1), NoneV),
                      SwitchDesc(n2, id2, "p2p", "192.168.2", 0, 31, FALSE, r2, Some(1), NoneV)>>] :
        n2 \in {"ls1", "ls2"}, id2 \in {1, 2}, r1 \in BOOLEAN, r2 \in BOOLEAN }

DeriveConfigs == OneSwitchConfigs \cup TwoSwitchConfigs

\* the command has been started on a specification
InitDerive ==
    /\ entry = "cli"
    /\ config \in DeriveConfigs
    /\ topology = NoneV
    /\ nb = EmptyNb
    /\ phase = "load"
    /\ cmd = "build"
    /\ pc = 0
    /\ log = <<>>
    /\ exit_code = NoneV
    /\ hist = <<>>
    /\ nb0 = nb
    /\ faults = 0
    /\ steps = <<>>

NextDerive ==
    \/ LoadConfig
    \/ DeriveTopology
    \/ CliExcept

SpecDerive == InitDerive /\ [][NextDerive]_vars

\* load_config has run, and its outcome
Loaded == log # <<>> /\ log[1].fn = "load_config"
Accepted == Loaded /\ log[1] = CallEv("load_config", "ok")
Rejected == Loaded /\ log[1] = CallEv("load_config", "ValueError")
\* Topology(lab_config) has returned a topology
Derived == Accepted /\ Len(log) >= 2 /\ log[2] = CallEv("Topology", "ok")

CfgIdx == 1..Len(config.switches)
\* the ports of the descriptor sw, if listed
ListedPorts(sw) == IF sw.ports = NoneV THEN <<>> ELSE Val(sw.ports)

\* the checks of the specification other than the port selection
ChecksButPortSelection(cfg) ==
    /\ validate_mac_prefix(cfg.vpc.mac_prefix)
    /\ validate_switch_ids(cfg.switches)
    /\ \A i \in 1..Len(cfg.switches) :
         /\ validate_subnet(cfg.switches[i])
         /\ \A j \in 1..Len(ListedPorts(cfg.switches[i])) :
              validate_ip_if_static(ListedPorts(cfg.switches[i])[j])

\* one port source is resolvable: directly, or through the VPC default
PortSourceResolvable(cfg, sw) ==
    /\ ~(sw.ports # NoneV /\ sw.port_count # NoneV)
    /\ ~(sw.ports = NoneV /\ sw.port_count = NoneV /\ cfg.vpc.port_count = NoneV)

(***************************************************************************)
(* C14.  Port selection: a specification that passes every other check is  *)
(* accepted exactly when each switch has one resolvable port source (not   *)
(* both a port list and a count; not neither unless the VPC has a default  *)
(* count); a switch with neither then gets its ports from the VPC default. *)
(***************************************************************************)
C14_PortSelection ==
    (Loaded /\ ChecksButPortSelection(config)) =>
    /\ Accepted <=> \A i \in CfgIdx : PortSourceResolvable(config, config.switches[i])
    /\ (Derived /\ Len(Topo.switches) = Len(config.switches)) =>
         \A i \in CfgIdx :
            (config.switches[i].ports = NoneV /\ config.switches[i].port_count = NoneV)
            => Len(Topo.switches[i].ports) = Min(Val(config.vpc.port_count), UsableCount(Topo.switches[i]))

\* C14 without the VPC default: accepted exactly when each switch gives a
\* port list or a count and not both
PortSelectionDirectOnly ==
    (Loaded /\ ChecksButPortSelection(config)) =>
    (Accepted <=> \A i \in CfgIdx :
                     (config.switches[i].ports # NoneV) # (config.switches[i].port_count # NoneV))

\* two switch descriptors of the specification share an id
SharedId(cfg) ==
    \E i, j \in 1..Len(cfg.switches) : i # j /\ cfg.switches[i].id = cfg.switches[j].id

(***************************************************************************)
(* C15.  Switch id uniqueness: a specification in which two switches share *)
(* an id is rejected by load_config, and Topology is never called on it.   *)
(***************************************************************************)
C15_SharedIdRejected ==
    SharedId(config) =>
    /\ Loaded => Rejected
    /\ \A k \in 1..Len(log) : log[k].fn # "Topology"
    /\ topology = NoneV
    /\ phase \in {"load", "except", "idle"}

\* the command has exited with 1 on a specification of two switches of
\* different names, each valid on its own, that share an id
C15_Witness ==
    /\ SharedId(config)
    /\ Len(config.switches) = 2
    /\ config.switches[1].name # config.switches[2].name
    /\ \A i \in CfgIdx : SwitchValid(config.switches[i])
    /\ validate_mac_prefix(config.vpc.mac_prefix)
    /\ Rejected /\ phase = "idle" /\ exit_code = Some(1)

\* the checks of the specification other than the check of the port's IP
ChecksButPortIp(cfg) ==
    /\ validate_mac_prefix(cfg.vpc.mac_prefix)
    /\ validate_switch_ids(cfg.switches)
    /\ \A i \in 1..Len(cfg.switches) :
         /\ validate_subnet(cfg.switches[i])
         /\ validate_ports_or_count(cfg.switches[i])

(***************************************************************************)
(* C16.  Static port requires an IP: a specification that passes every     *)
(* other check is rejected when a static port has no IP or an empty one,   *)
(* and accepted otherwise, whatever the IP of its dynamic and unknown      *)
(* ports.                                                                  *)
(***************************************************************************)
C16_StaticNeedsIp ==
    (Loaded /\ ChecksButPortIp(config)) =>
    (Accepted <=> \A i \in CfgIdx : \A j \in 1..Len(ListedPorts(config.switches[i])) :
                     LET p == ListedPorts(config.switches[i])[j] IN
                     p.addressing = "static" => TruthyStr(p.ip))

\* C16 for the ports whose "ip" key is present in the document
StaticNeedsIpWhenKeyGiven ==
    (Loaded /\ ChecksButPortIp(config)) =>
    (Accepted <=> \A i \in CfgIdx : \A j \in 1..Len(ListedPorts(config.switches[i])) :
                     LET p == ListedPorts(config.switches[i])[j] IN
                     (p.addressing = "static" /\ p.ip_given) => TruthyStr(p.ip))

\* the two hex digits of an octet
Octets == 0..255
TwoHex(n) == HexDigit(n \div 16) \o HexDigit(n % 16)

\* the MAC of port p of switch sw is the prefix and three two-digit fields
MacWellFormed(cfg, sw, p) ==
    /\ cfg.vpc.id \in Octets /\ sw.id \in Octets /\ p.port_index \in Octets
    /\ p.mac = JoinLower(cfg.vpc.mac_prefix) \o ":" \o TwoHex(cfg.vpc.id) \o ":" \o TwoHex(sw.id)
                  \o ":" \o TwoHex(p.port_index)

(***************************************************************************)
(* C18.  MAC formula: the MAC of every port of every derived topology is   *)
(* the VPC MAC prefix followed by three fields of exactly two hex digits:  *)
(* the VPC id, the switch id and the port index.                           *)
(***************************************************************************)
C18_MacSixOctets ==
    Derived =>
    \A i \in SwitchIdx : \A j \in 1..Len(Topo.switches[i].ports) :
        MacWellFormed(config, Topo.switches[i], Topo.switches[i].ports[j])

\* C18 for the specifications whose switch ids are at most 255
MacSixOctetsIdsInRange ==
    (Derived /\ \A i \in CfgIdx : config.switches[i].id \in Octets) => C18_MacSixOctets

\* the switch descriptor sw has its ports autogenerated
Autogenerated(sw) == ~TruthySeq(sw.ports)
\* the count in force for sw: its own if given, otherwise the VPC default
CountInForce(cfg, sw) == IF sw.port_count # NoneV THEN sw.port_count ELSE cfg.vpc.port_count
\* every autogenerated switch of the derived topology has min(c, p) ports
ClampedOn(S) ==
    \A i \in S :
        (Autogenerated(config.switches[i]) /\ CountInForce(config, config.switches[i]) # NoneV) =>
        Len(Topo.switches[i].ports) =
            Min(Val(CountInForce(config, config.switches[i])), UsableCount(Topo.switches[i]))
\* the derived switches are the descriptors, one for one
OneForOne == Derived /\ Len(Topo.switches) = Len(config.switches)

(***************************************************************************)
(* C19.  Port count clamping: an autogenerated switch of a derived         *)
(* topology has min(c, p) ports, c being the switch's own port count if    *)
(* given and otherwise the VPC default, p the size of its usable pool.     *)
(***************************************************************************)
C19_PortCountClamped == OneForOne => ClampedOn(CfgIdx)

\* C19 for the switches whose own count is not 0
PortCountClampedNonZero ==
    OneForOne => ClampedOn({i \in CfgIdx : config.switches[i].port_count # Some(0)})

\* 5 ports requested on a /31 give 2, 300 on a /24 give 254
ClampReached ==
    /\ OneForOne
    /\ \E i \in CfgIdx : /\ config.switches[i].port_count \in {Some(5), Some(300)}
                          /\ Len(Topo.switches[i].ports) < Val(config.switches[i].port_count)
                          /\ Len(Topo.switches[i].ports) = UsableCount(Topo.switches[i])

\* the switch of the derived topology an entry of the gateway mapping names
EntrySwitches(e) == {i \in SwitchIdx : Topo.switches[i].name = e.switch}
\* the gateway of switch sw resolves
GatewayResolves(sw) == TruthyStr(router_port_ip(sw)) /\ TruthyStr(router_port_mac(sw).value)
RouterEntries == Val(Topo.router).switch_ports

(***************************************************************************)
(* C20.  Router presence: a derived topology has a router exactly when one *)
(* of its switches is routed; every entry of the router's gateway mapping  *)
(* names a switch that is routed and whose gateway IP and gateway MAC both *)
(* resolve, so no non-routed switch has an entry.                          *)
(***************************************************************************)
C20_RouterPresence ==
    topology # NoneV =>
    /\ HasRouter <=> \E i \in SwitchIdx : Topo.switches[i].routed
    /\ HasRouter =>
          \A k \in 1..Len(RouterEntries) :
              /\ EntrySwitches(RouterEntries[k]) # {}
              /\ \A i \in EntrySwitches(RouterEntries[k]) :
                     Topo.switches[i].routed /\ GatewayResolves(Topo.switches[i])

\* a topology whose router has an entry for one routed switch and none for
\* another routed switch, whose gateway MAC does not resolve
C20_Witness ==
    /\ topology # NoneV /\ HasRouter
    /\ \E i, j \in SwitchIdx :
          /\ Topo.switches[i].routed /\ GatewayResolves(Topo.switches[i])
          /\ \E k \in 1..Len(RouterEntries) : RouterEntries[k].switch = Topo.switches[i].name
          /\ Topo.switches[j].routed /\ ~GatewayResolves(Topo.switches[j])
          /\ \A k \in 1..Len(RouterEntries) : RouterEntries[k].switch # Topo.switches[j].name

\* a topology without a router: none of its switches is routed
C20_WitnessNoRouter ==
    topology # NoneV /\ ~HasRouter /\ Len(Topo.switches) > 0

\* the rows of db' whose name (uuid for DHCP options) db does not have
NewRows(old, new) ==
    {r \in new.lr : ~lr_get(old, r.name)} \cup {r \in new.ls : ~ls_get(old, r.name)}
    \cup {r \in new.lsp : ~lsp_get(old, r.name)} \cup {r \in new.lrp : ~lrp_get(old, r.name)}
    \cup {r \in new.dhcp : \A q \in old.dhcp : q.uuid # r.uuid}

(***************************************************************************)
(* C21.  Ownership tagging: every object a step of the tool adds to the    *)
(* database (router, switch, DHCP options record, port, router-side        *)
(* interface, switch-side router interface) carries the ownership marker   *)
(* in the state that first holds it.                                       *)
(***************************************************************************)
C21_CreatedIsTagged == [][\A r \in NewRows(nb, nb') : r.tagged]_vars

\* a build has created an object of each of the six kinds, all tagged
C21_Witness ==
    /\ InRun("build")
    /\ \E r \in nb.lr : r.tagged
    /\ \E r \in nb.ls : r.tagged
    /\ \E r \in nb.dhcp : r.tagged
    /\ \E r \in nb.lsp : r.tagged /\ r.type = ""
    /\ \E r \in nb.lrp : r.tagged
    /\ \E r \in nb.lsp : r.tagged /\ r.type = "router"

\* none of the topology's objects is in db: no row under a derived name and
\* no DHCP options record of the tool under a derived CIDR
Gone(db) ==
    /\ HasRouter => ~lr_get(db, Val(Topo.router).full_name)
    /\ \A i \in SwitchIdx :
         LET sw == Topo.switches[i] IN
         /\ ~ls_get(db, sw.full_name)
         /\ \A j \in 1..Len(sw.ports) : ~lsp_get(db, sw.ports[j].full_name)
         /\ \A r \in DhcpMatches(db, sw) : ~r.tagged
         /\ (HasRouter /\ sw.routed) =>
               /\ ~lrp_get(db, RouterPortName(sw, Val(Topo.router)))
               /\ ~lsp_get(db, SwitchPortName(sw, Val(Topo.router)))

\* a destroy is re-run after a destroy that a failing transaction interrupted
Recovering ==
    /\ InRun("destroy") /\ hist # <<>>
    /\ LastHist.cmd = "destroy" /\ LastHist.txn_failed /\ LastHist.fault
\* every transaction of the invocation that reached the database was applied
DeletesOnlyExisting ==
    \A k \in 1..Len(log) : log[k].ev = "commit" => (log[k].ok \/ ~log[k].backend)
\* the database the interrupted destroy started on
InterruptedNb0 == LastHist.nb0

(***************************************************************************)
(* C22.  Destroy recovery: a destroy re-run after a destroy that failed at *)
(* one of its transactions raises no error of its own, deletes only        *)
(* objects that exist, and when it has returned none of the topology's     *)
(* objects is present.                                                     *)
(***************************************************************************)
C22_DestroyRecovery ==
    Recovering =>
    /\ phase = "except" => BackendFailed(log)
    /\ DeletesOnlyExisting
    /\ phase = "returned" => Gone(nb)

\* C22 where the interrupted destroy started with at most one DHCP options
\* record for each switch's CIDR
DestroyRecoveryOneRecord ==
    (Recovering /\ \A i \in SwitchIdx : Cardinality(DhcpMatches(InterruptedNb0, Topo.switches[i])) <= 1)
    => C22_DestroyRecovery

\* a re-run destroy has returned after deleting what the interrupted one left
RecoveryReached ==
    /\ Recovering /\ phase = "returned" /\ Gone(nb)
    /\ ~Gone(nb0)
    /\ nb0 # InterruptedNb0

(***************************************************************************)
(* Two build invocations of one specification against one database.  Each  *)
(* runs OvnBuilder.build; a handler's existence check                      *)
(* (<kind>_get(name).execute) and its txn.commit() are separate steps, and *)
(* the steps of the two invocations interleave.  Here phase and pc are     *)
(* per invocation: phase[p] is where invocation p stands in its handler,   *)
(* pc[p] its step and the transaction it has built.                        *)
(***************************************************************************)
Procs == {1, 2}

\* one switch with one autogenerated port, without and with DHCP
SwRacePlain == SwitchDesc("ls1", 1, "normal", "192.168.1", 0, 24, FALSE, FALSE, Some(1), NoneV)
SwRaceDhcp == SwitchDesc("ls1", 1, "normal", "192.168.1", 0, 24, TRUE, FALSE, Some(1), NoneV)
RaceConfigs ==
    {[vpc |-> Vpc(Chars_e1ccff), switches |-> q] : q \in {<<SwRacePlain>>, <<SwRaceDhcp>>}}

\* the event e of invocation p
RaceEv(p, e) ==
    [proc |-> p, ev |-> e.ev, fn |-> e.fn, name |-> e.name, ops |-> e.ops, ok |-> e.ok,
     backend |-> e.backend]
RaceEvs(p, es) == [k \in 1..Len(es) |-> RaceEv(p, es[k])]

\* the handler of step st on database db, up to its txn.commit():
\* the events of its checks, and the transaction it commits (NoneV if it
\* returns before opening one)
UpToCommit(db, topo, st) ==
    LET r == RunBuildStep(db, topo, st)
        last == r.events[Len(r.events)] IN
    IF last.ev = "commit"
    THEN [events |-> SubSeq(r.events, 1, Len(r.events) - 1), txn |-> Some(last)]
    ELSE [events |-> r.events, txn |-> NoneV]

InitRace ==
    /\ entry = "race"
    /\ config \in RaceConfigs
    /\ topology = BuildTopology(config, FixtureAttrs(config)).topology
    /\ nb = EmptyNb
    /\ phase = [p \in Procs |-> "check"]
    /\ cmd = "build"
    /\ pc = [p \in Procs |-> [step |-> 1, txn |-> NoneV]]
    /\ log = <<>>
    /\ exit_code = NoneV
    /\ hist = <<>>
    /\ nb0 = nb
    /\ faults = 0
    /\ steps = BuildSteps(Val(topology))

\* invocation p enters its next handler and runs it up to txn.commit(), or
\* to its return where the object exists
RaceCheck(p) ==
    /\ phase[p] = "check" /\ pc[p].step <= Len(steps)
    /\ LET u == UpToCommit(nb, Topo, steps[pc[p].step]) IN
       /\ log' = log \o RaceEvs(p, u.events)
       /\ IF u.txn = NoneV
          THEN /\ pc' = [pc EXCEPT ![p] = [step |-> pc[p].step + 1, txn |-> NoneV]]
               /\ phase' = phase
          ELSE /\ pc' = [pc EXCEPT ![p] = [step |-> pc[p].step, txn |-> u.txn]]
               /\ phase' = [phase EXCEPT ![p] = "commit"]
    /\ UNCHANGED <<entry, config, topology, nb, cmd, exit_code, hist, nb0, faults, steps>>

\* the operations of the transaction invocation p has built; the uuid that
\* ls_set_dhcpv4_options refers to is the one dhcp_options_add gets in the
\* transaction
TxnOps(p) ==
    IF steps[pc[p].step].fn = "_create_dhcp_options"
    THEN Val(UpToCommit(nb, Topo, steps[pc[p].step]).txn).ops
    ELSE Val(pc[p].txn).ops

\* a commit that looks again and sends nothing where the object exists
RaceCommit_Recheck(p) ==
    /\ phase[p] = "commit"
    /\ LET r == RunBuildStep(nb, Topo, steps[pc[p].step])
           evs == IF r.events[Len(r.events)].ev = "commit"
                  THEN <<r.events[Len(r.events)]>> ELSE <<>> IN
       /\ nb' = r.nb
       /\ log' = log \o RaceEvs(p, evs)
       /\ phase' = [phase EXCEPT ![p] = IF r.raised THEN "except" ELSE "check"]
       /\ pc' = [pc EXCEPT ![p] = [step |-> IF r.raised THEN pc[p].step ELSE pc[p].step + 1,
                                   txn |-> NoneV]]
    /\ UNCHANGED <<entry, config, topology, cmd, exit_code, hist, nb0, faults, steps>>

\* txn.commit() of invocation p, on the database as it is now
RaceCommit(p) ==
    /\ phase[p] = "commit"
    /\ LET t == Val(pc[p].txn)
           c == Commit(nb, t.fn, t.name, <<>>, TxnOps(p), TRUE) IN
       /\ nb' = c.nb
       /\ log' = log \o RaceEvs(p, c.events)
       /\ phase' = [phase EXCEPT ![p] = IF c.raised THEN "except" ELSE "check"]
       /\ pc' = [pc EXCEPT ![p] = [step |-> IF c.raised THEN pc[p].step ELSE pc[p].step + 1,
                                   txn |-> NoneV]]
    /\ UNCHANGED <<entry, config, topology, cmd, exit_code, hist, nb0, faults, steps>>

\* build of invocation p returns
RaceReturn(p) ==
    /\ phase[p] = "check" /\ pc[p].step = Len(steps) + 1
    /\ phase' = [phase EXCEPT ![p] = "returned"]
    /\ UNCHANGED <<entry, config, topology, nb, cmd, pc, log, exit_code, hist, nb0, faults, steps>>

NextRace ==
    \/ \E p \in Procs : RaceCheck(p)
    \/ \E p \in Procs : RaceCommit(p)
    \/ \E p \in Procs : RaceReturn(p)

SpecRace == InitRace /\ [][NextRace]_vars

\* the names the transaction of a commit event creates rows under
CreatedNames(e) == {e.ops[k].name : k \in {k \in 1..Len(e.ops) : e.ops[k].op \in CreateOps}}
\* invocation p leaves the commit of its handler in this step
Commits(p) == phase[p] = "commit" /\ phase'[p] # "commit"

(***************************************************************************)
(* C23.  Unguarded concurrency: the existence check is outside the         *)
(* transaction.  An invocation that found an object absent sends the       *)
(* create it built, whatever the other invocation has committed since, so  *)
(* two concurrent builds can both find an object absent and both send a    *)
(* create for it.                                                          *)
(***************************************************************************)
C23_CheckOutsideTransaction ==
    [][\A p \in Procs :
          Commits(p) =>
          /\ Len(log') = Len(log) + 1
          /\ log'[Len(log')].ev = "commit" /\ log'[Len(log')].proc = p
          /\ CreatedNames(log'[Len(log')]) # {}]_vars

\* both invocations looked for the switch before either committed, and both
\* sent a create for it
C23_Witness ==
    \E q1, q2, c1, c2 \in 1..Len(log) :
        /\ q1 < c1 /\ q2 < c1 /\ c1 < c2
        /\ log[q1].ev = "query" /\ log[q2].ev = "query"
        /\ log[q1].fn = "ls_get" /\ log[q2].fn = "ls_get"
        /\ log[q1].name = log[q2].name
        /\ log[q1].proc # log[q2].proc
        /\ log[c1].ev = "commit" /\ log[c2].ev = "commit"
        /\ log[c1].proc # log[c2].proc
        /\ log[q1].name \in CreatedNames(log[c1]) \cap CreatedNames(log[c2])
        /\ log[c1].fn = "_create_logical_switch" /\ log[c2].fn = "_create_logical_switch"

(***************************************************************************)
(* C24.  Port indices: the ports of every derived switch carry the indices *)
(* 1, 2, ..., N in list order, so each index is unique within its switch   *)
(* and no port has index 0.                                                *)
(***************************************************************************)
C24_PortIndices ==
    Derived =>
    \A i \in SwitchIdx : \A j \in 1..Len(Topo.switches[i].ports) :
        Topo.switches[i].ports[j].port_index = j

\* a derived switch with two explicit ports, in the order of the list
C24_Witness ==
    /\ Derived
    /\ \E i \in CfgIdx :
          /\ Len(ListedPorts(config.switches[i])) = 2
          /\ Len(Topo.switches[i].ports) = 2
          /\ \A j \in 1..2 : Topo.switches[i].ports[j].port_name = ListedPorts(config.switches[i])[j].name

\* a derived switch with at least two autogenerated ports
PortIndicesAutogenerated ==
    /\ Derived
    /\ \E i \in CfgIdx : Autogenerated(config.switches[i]) /\ Len(Topo.switches[i].ports) >= 2

(***************************************************************************)
(* The properties of one Logical Switch and the topology of a one-switch   *)
(* specification, over subnets of every prefix length from /24 to /32.     *)
(* entry = "cli": the switch as Topology._build_topology makes it;         *)
(* entry = "api": with vpc_mac_prefix and vpc_id resolved on it.           *)
(***************************************************************************)
SubnetPool ==
    {sn \in [hi : {"192.168.1", "10.0.0"}, lo : {0, 4, 64, 128, 192, 252}, plen : 24..AddrBits] :
        NetworkOk(sn)}

SwitchConfigs ==
    {[vpc |-> Vpc(Chars_e1ccff),
      switches |-> <<[name |-> "ls1", id |-> 1, type |-> "normal", subnet |-> sn,
                      dhcp_enable |-> dhcp, routed |-> routed,
                      port_count |-> Some(1), ports |-> NoneV]>>] :
        sn \in SubnetPool, dhcp \in BOOLEAN, routed \in BOOLEAN}

\* the attributes dhcp_server_mac finds on the switch
AttrsOf(e, cfg) == IF e = "api" THEN FixtureAttrs(cfg) ELSE NoneV
\* the switch whose properties are read
TheSwitch == LogicalSwitch(config.vpc.name, config.switches[1], AttrsOf(entry, config))

InitSwitch ==
    /\ entry \in {"cli", "api"}
    /\ config \in SwitchConfigs
    /\ topology = NoneV
    /\ nb = EmptyNb
    /\ phase = "read"
    /\ cmd = "none"
    /\ pc = 0
    /\ log = <<>>
    /\ exit_code = NoneV
    /\ hist = <<>>
    /\ nb0 = nb
    /\ faults = 0
    /\ steps = <<>>

\* the value a read returned
ReadEv(fn, value) == [ev |-> "read", fn |-> fn, value |-> value]
Read(fn, value) ==
    /\ phase = "read" /\ log = <<>>
    /\ log' = <<ReadEv(fn, value)>>
    /\ UNCHANGED <<entry, config, topology, nb, phase, cmd, pc, exit_code, hist, nb0, faults, steps>>

ReadUsableIps == Read("usable_ips", usable_ips(TheSwitch))
ReadRouterPortIp == Read("router_port_ip", router_port_ip(TheSwitch))
ReadRouterPortMac == Read("router_port_mac", router_port_mac(TheSwitch))

\* Topology(config) on the one-switch specification
NewTopology ==
    /\ phase = "read" /\ log = <<>>
    /\ LET t == BuildTopology(config, AttrsOf(entry, config)) IN
       /\ topology' = t.topology
       /\ log' = <<ReadEv("Topology", IF t.raised THEN "AttributeError" ELSE "ok")>>
    /\ UNCHANGED <<entry, config, nb, phase, cmd, pc, exit_code, hist, nb0, faults, steps>>

NextSwitch == ReadUsableIps \/ ReadRouterPortIp \/ ReadRouterPortMac \/ NewTopology

SpecSwitch == InitSwitch /\ [][NextSwitch]_vars

\* the property fn has been read
HasRead(fn) == log # <<>> /\ log[1].fn = fn
Value == log[1].value
TheSubnet == config.switches[1].subnet
\* the last octets of all addresses of sn but the network and the
\* broadcast address
InnerAddresses(sn) == [i \in 1..(NumAddresses(sn) - 2) |-> sn.lo + i]
\* q without its first n elements
Drop(q, n) == [i \in 1..(IF Len(q) > n THEN Len(q) - n ELSE 0) |-> q[i + n]]

(***************************************************************************)
(* C25.  Usable host pool: both addresses of a /31; for any other subnet   *)
(* all addresses except network and broadcast, less the first 4 of these   *)
(* when the switch has DHCP enabled, for every prefix length.              *)
(***************************************************************************)
C25_UsablePool ==
    HasRead("usable_ips") =>
    Value = IF TheSubnet.plen = AddrBits - 1 THEN <<TheSubnet.lo, TheSubnet.lo + 1>>
            ELSE IF TheSwitch.dhcp_enable THEN Drop(InnerAddresses(TheSubnet), 4)
            ELSE InnerAddresses(TheSubnet)

\* C25 amended: the first 4 are excluded only when more than 4 addresses
\* remain, and the pool of a /32 is its one address
C25_UsablePoolWhenRoom ==
    HasRead("usable_ips") =>
    Value = IF TheSubnet.plen = AddrBits - 1 THEN <<TheSubnet.lo, TheSubnet.lo + 1>>
            ELSE IF TheSubnet.plen = AddrBits THEN <<TheSubnet.lo>>
            ELSE IF TheSwitch.dhcp_enable /\ Len(InnerAddresses(TheSubnet)) > 4
                 THEN Drop(InnerAddresses(TheSubnet), 4)
            ELSE InnerAddresses(TheSubnet)

\* the pool of 192.168.1.0/24 with DHCP: 250 addresses from 192.168.1.5
C25_Witness ==
    /\ HasRead("usable_ips")
    /\ Cidr(TheSubnet) = "192.168.1.0/24" /\ TheSwitch.dhcp_enable
    /\ Len(Value) = 250 /\ Value[1] = 5

\* the pool of a DHCP-enabled /30 keeps its two hosts
UsablePoolSmallReached ==
    /\ HasRead("usable_ips")
    /\ TheSubnet.plen = 30 /\ TheSwitch.dhcp_enable /\ Len(Value) = 2

\* the pool as a list agrees with its size and first element
UsablePoolSize ==
    HasRead("usable_ips") =>
    /\ Len(Value) = UsableCount(TheSwitch)
    /\ Value # <<>> => Value[1] = FirstUsable(TheSwitch)

\* the ports of derived switch i are the descriptors of the explicit list,
\* one for one
PortsAsListed(i) ==
    LET listed == ListedPorts(config.switches[i])
        ports == Topo.switches[i].ports IN
    /\ Len(ports) = Len(listed)
    /\ \A j \in 1..Len(listed) :
          /\ ports[j].port_name = listed[j].name
          /\ ports[j].addressing = listed[j].addressing
          /\ ports[j].ip = listed[j].ip
\* the switch descriptors that give a port list
WithList == {i \in CfgIdx : config.switches[i].ports # NoneV}

(***************************************************************************)
(* C26.  Explicit port list: a switch whose descriptor gives a port list   *)
(* of length N, N = 0 included, is derived with exactly N ports, the i-th  *)
(* with the name, addressing mode and static IP of the i-th descriptor;    *)
(* none of its ports is autogenerated.                                     *)
(***************************************************************************)
C26_ExplicitPorts == OneForOne => \A i \in WithList : PortsAsListed(i)

\* C26 for the lists that are not empty
ExplicitPortsNonEmpty ==
    OneForOne => \A i \in WithList : ListedPorts(config.switches[i]) # <<>> => PortsAsListed(i)

\* a list of two descriptors derived as two ports, the second with its static IP
ExplicitPortsReached ==
    /\ OneForOne
    /\ \E i \in WithList : /\ Len(ListedPorts(config.switches[i])) = 2 /\ PortsAsListed(i)
                            /\ Topo.switches[i].ports[2].ip # NoneV

\* the last octet of the gateway address of sn: the network address of a
\* /31 (and the one address of a /32), the address after the network
\* address otherwise
GatewayOctet(sn) == IF sn.plen >= AddrBits - 1 THEN sn.lo ELSE sn.lo + 1

(***************************************************************************)
(* C27.  Router gateway IP: the gateway IP of a routed switch is the first *)
(* usable host address of its subnet with the subnet's prefix length, on a *)
(* /31 the network address; a non-routed switch has no gateway IP.         *)
(***************************************************************************)
C27_GatewayIp ==
    HasRead("router_port_ip") =>
    Value = IF TheSwitch.routed
            THEN Some(IpStr(TheSubnet.hi, GatewayOctet(TheSubnet)) \o "/" \o Dec(TheSubnet.plen))
            ELSE NoneV

\* the gateway of routed 192.168.1.0/24 is 192.168.1.1/24
C27_Witness ==
    /\ HasRead("router_port_ip") /\ TheSwitch.routed
    /\ Cidr(TheSubnet) = "192.168.1.0/24" /\ Value = Some("192.168.1.1/24")

\* the gateway of a routed /31 is its network address
GatewayIpPointToPoint ==
    /\ HasRead("router_port_ip") /\ TheSwitch.routed
    /\ Cidr(TheSubnet) = "192.168.1.4/31" /\ Value = Some("192.168.1.4/31")

\* Topology(config) has returned / has raised
TopologyMade == HasRead("Topology") /\ Value = "ok"
TopologyRaised == HasRead("Topology") /\ Value # "ok"
\* the entries of the gateway mapping for the switch
EntriesOfSwitch ==
    IF Topo.router = NoneV THEN {}
    ELSE {RouterEntries[k] : k \in {k \in 1..Len(RouterEntries) : RouterEntries[k].switch = TheSwitch.name}}
\* the network address of the subnet, bare or with its prefix length
NetworkAddressForms ==
    {IpStr(TheSubnet.hi, TheSubnet.lo), IpStr(TheSubnet.hi, TheSubnet.lo) \o "/" \o Dec(TheSubnet.plen)}

(***************************************************************************)
(* C28.  Gateway mapping edge cases: a routed switch on a subnet without   *)
(* usable hosts gives no entry of the gateway mapping and no error; a      *)
(* routed switch on a /31 always gives an entry with the network address,  *)
(* with DHCP enabled or not.                                               *)
(***************************************************************************)
C28_GatewayEdgeCases ==
    (HasRead("Topology") /\ TheSwitch.routed) =>
    /\ (NumHosts(TheSubnet) = 0 /\ TheSubnet.plen # AddrBits - 1) =>
           (TopologyMade /\ EntriesOfSwitch = {})
    /\ TheSubnet.plen = AddrBits - 1 =>
           (TopologyMade /\ \E e \in EntriesOfSwitch : e.ip \in NetworkAddressForms)

\* a routed /31 switch has its entry exactly when DHCP is enabled on it and
\* its vpc_mac_prefix and vpc_id are resolved; without DHCP there is no
\* entry and no error
GatewayEntryPointToPoint ==
    (HasRead("Topology") /\ TheSwitch.routed /\ TheSubnet.plen = AddrBits - 1) =>
    /\ TopologyRaised <=> (TheSwitch.dhcp_enable /\ entry = "cli")
    /\ TopologyMade =>
          IF TheSwitch.dhcp_enable
          THEN \E e \in EntriesOfSwitch : e.ip \in NetworkAddressForms
          ELSE EntriesOfSwitch = {}

\* a routed DHCP-enabled /31 with its entry
GatewayEntryReached ==
    /\ TopologyMade /\ TheSwitch.routed /\ TheSubnet.plen = AddrBits - 1
    /\ EntriesOfSwitch # {}

\* the DHCP options record the derivation is to give the switch
ExpectedDhcpOptions ==
    LET ip == IpStr(TheSubnet.hi, GatewayOctet(TheSubnet)) IN
    [server_id  |-> ip,
     server_mac |-> JoinLower(config.vpc.mac_prefix) \o ":" \o TwoHex(config.vpc.id) \o ":"
                       \o TwoHex(config.switches[1].id) \o ":00",
     router     |-> ip,
     dns_server |-> "8.8.8.8",
     lease_time |-> "3600"]

(***************************************************************************)
(* C29.  DHCP options derivation: a derived switch has a DHCP options      *)
(* record only if DHCP is enabled on it; the derivation gives every        *)
(* DHCP-enabled switch on a subnet with a usable host the record with the  *)
(* first host address as server and gateway IP, the index-0 MAC of the     *)
(* switch as server MAC, the fixed DNS server and lease time 3600.         *)
(***************************************************************************)
C29_DhcpOptionsDerived ==
    HasRead("Topology") =>
    /\ TopologyMade => (Topo.switches[1].dhcp_options # NoneV => TheSwitch.dhcp_enable)
    /\ (TheSwitch.dhcp_enable /\ NumHosts(TheSubnet) > 0) =>
          (TopologyMade /\ Topo.switches[1].dhcp_options = Some(ExpectedDhcpOptions))

\* C29 for switches on which vpc_mac_prefix and vpc_id are resolved
DhcpOptionsDerivedResolved == entry = "api" => C29_DhcpOptionsDerived

\* the record of DHCP-enabled 192.168.1.0/24: server 192.168.1.1
DhcpOptionsReached ==
    /\ TopologyMade /\ Cidr(TheSubnet) = "192.168.1.0/24"
    /\ Topo.switches[1].dhcp_options # NoneV
    /\ Val(Topo.switches[1].dhcp_options).server_id = "192.168.1.1"
    /\ Val(Topo.switches[1].dhcp_options).server_mac = "e1:cc:ff:01:01:00"

(***************************************************************************)
(* Builds of one switch with an explicit port list, one port of every      *)
(* addressing mode with and without IP, by OvnBuilder.build on the         *)
(* topology of a specification the schema accepts.                         *)
(***************************************************************************)
PortConfigs ==
    {cfg \in {[vpc |-> Vpc(Chars_e1ccff),
               switches |-> <<[name |-> "ls1", id |-> 1, type |-> "normal",
                               subnet |-> [hi |-> "192.168.1", lo |-> 0, plen |-> 24],
                               dhcp_enable |-> dhcp, routed |-> FALSE,
                               port_count |-> NoneV, ports |-> ports]>>] :
                 dhcp \in BOOLEAN, ports \in PortsChoices \ {NoneV, Some(<<>>)}} :
        LabConfigValid(cfg)}

InitPorts ==
    /\ entry = "api"
    /\ config \in PortConfigs
    /\ topology = BuildTopology(config, FixtureAttrs(config)).topology
    /\ nb = EmptyNb
    /\ phase = "idle"
    /\ cmd = "none"
    /\ pc = 0
    /\ log = <<>>
    /\ exit_code = NoneV
    /\ hist = <<>>
    /\ nb0 = nb
    /\ faults = 0
    /\ steps = <<>>

NextPorts ==
    \/ ApiCall("build")
    \/ ApiReturn
    \/ CreateLogicalSwitch
    \/ CreateDhcpOptions
    \/ CreateLogicalSwitchPort
    \/ BuildReturn

SpecPorts == InitPorts /\ [][NextPorts]_vars

\* the row written for Logical Port port
RowsOf(port) == {r \in nb.lsp : r.name = port.full_name}
\* every port row of the database is on its own switch, with addresses
\* addr(port) and the port-security rule sec(port)
PortsRendered(addr(_), sec(_)) ==
    \A i \in SwitchIdx : \A j \in 1..Len(Topo.switches[i].ports) :
        LET port == Topo.switches[i].ports[j] IN
        \A r \in RowsOf(port) :
            /\ r.switch = Topo.switches[i].full_name
            /\ r.addresses = addr(port)
            /\ r.port_security = sec(port)

\* "<mac> <ip>" for a static port with an IP and "<mac>" otherwise
SecurityClaimed(port) ==
    Some(IF port.addressing = "static" /\ TruthyStr(port.ip)
         THEN port.mac \o " " \o Val(port.ip) ELSE port.mac)
\* "<mac> dynamic", "<mac> <ip>" for a static port, "unknown"; NoneV where
\* a static port has no IP to write
AddressesClaimed(port) ==
    CASE port.addressing = "dynamic" -> Some(port.mac \o " dynamic")
      [] port.addressing = "static" ->
            IF TruthyStr(port.ip) THEN Some(port.mac \o " " \o Val(port.ip)) ELSE NoneV
      [] OTHER -> Some("unknown")
\* the same, with "unknown" for a static port without IP
AddressesWritten(port) ==
    CASE port.addressing = "dynamic" -> Some(port.mac \o " dynamic")
      [] port.addressing = "static" /\ TruthyStr(port.ip) -> Some(port.mac \o " " \o Val(port.ip))
      [] OTHER -> Some("unknown")

(***************************************************************************)
(* C30.  Port addressing rendering: a port that build creates is on its    *)
(* own switch, with addresses "<mac> dynamic" if dynamic, "<mac> <ip>" if  *)
(* static, "unknown" if unknown, and port security "<mac> <ip>" if static  *)
(* with an IP and "<mac>" otherwise.                                       *)
(***************************************************************************)
C30_PortRendering == InRun("build") => PortsRendered(AddressesClaimed, SecurityClaimed)

\* C30 amended: a static port without IP is written as "unknown"
C30_PortRenderingStaticWithIp == InRun("build") => PortsRendered(AddressesWritten, SecurityClaimed)

\* a build has written a dynamic port and a static port with its IP
C30_Witness ==
    /\ InRun("build") /\ phase = "returned"
    /\ \E r \in nb.lsp : r.addresses = Some("e1:cc:ff:01:01:01 dynamic")
                          /\ r.port_security = Some("e1:cc:ff:01:01:01")
    /\ \E r \in nb.lsp : r.addresses = Some("e1:cc:ff:01:01:02 192.168.1.10")
                          /\ r.port_security = Some("e1:cc:ff:01:01:02 192.168.1.10")

\* a build has written a static port without IP
PortRenderingStaticWithoutIp ==
    /\ InRun("build")
    /\ \E j \in 1..Len(Topo.switches[1].ports) :
          LET port == Topo.switches[1].ports[j] IN
          /\ port.addressing = "static" /\ port.ip = NoneV
          /\ \E r \in RowsOf(port) : r.addresses = Some("unknown")

\* the router-side interface and the switch-side interface build makes for
\* an attachable switch
RouterSideInterface(sw) ==
    [name     |-> Val(Topo.router).full_name \o "-" \o sw.name,
     router   |-> Val(Topo.router).full_name,
     mac      |-> Val(router_port_mac(sw).value),
     networks |-> Val(router_port_ip(sw)),
     tagged   |-> TRUE]
SwitchSideInterface(sw) ==
    [name          |-> sw.full_name \o "-" \o Val(Topo.router).full_name,
     switch        |-> sw.full_name,
     tagged        |-> TRUE,
     addresses     |-> Some("router"),
     port_security |-> NoneV,
     type          |-> "router",
     router_port   |-> Some(Val(Topo.router).full_name \o "-" \o sw.name)]
\* the attachment step of build has committed for sw, adding op
Attached(sw, op) ==
    \E i \in 1..Len(log) :
        /\ log[i].ev = "commit" /\ log[i].ok
        /\ log[i].fn = "_connect_switch_to_router" /\ log[i].name = sw.full_name
        /\ \E k \in 1..Len(log[i].ops) : log[i].ops[k].op = op

(***************************************************************************)
(* C31.  Router attachment shape: once build has attached a routed switch  *)
(* whose gateway resolves, the database holds the router-side interface    *)
(* {router full name}-{switch name} on the router with the gateway MAC and *)
(* the gateway IP, and the switch-side interface                           *)
(* {switch full name}-{router full name} on the switch, of type router,    *)
(* with the router-port option naming the router-side interface and the    *)
(* address "router"; each holds of the interface the attachment added.     *)
(***************************************************************************)
C31_AttachmentShape ==
    (InRun("build") /\ HasRouter) =>
        \A i \in SwitchIdx :
            LET sw == Topo.switches[i] IN
            Attachable(sw) =>
                /\ Attached(sw, "lrp_add") => RouterSideInterface(sw) \in nb.lrp
                /\ Attached(sw, "lsp_add") => SwitchSideInterface(sw) \in nb.lsp

\* a build has attached a switch, adding both interfaces
C31_Witness ==
    /\ InRun("build") /\ HasRouter
    /\ \E i \in SwitchIdx :
          LET sw == Topo.switches[i] IN
          /\ Attachable(sw)
          /\ Attached(sw, "lrp_add") /\ Attached(sw, "lsp_add")
          /\ RouterSideInterface(sw) \in nb.lrp
          /\ SwitchSideInterface(sw) \in nb.lsp

\* the rows of db the tool created (C21: its creates, and only they, are tagged)
CreatedRows(db) ==
    {r \in db.lr : r.tagged} \cup {r \in db.ls : r.tagged} \cup {r \in db.lsp : r.tagged}
    \cup {r \in db.lrp : r.tagged} \cup {r \in db.dhcp : r.tagged}
\* the invocations so far: builds, completed or interrupted, then one
\* completed destroy
BuildsThenDestroy ==
    /\ phase = "idle" /\ Len(hist) >= 2
    /\ LastHist.cmd = "destroy" /\ LastHist.ok
    /\ \A i \in 1..(Len(hist) - 1) : hist[i].cmd = "build"

(***************************************************************************)
(* C32.  Clean-up after any build history: after any sequence of build     *)
(* invocations of one specification, each completed or interrupted,        *)
(* followed by one completed destroy of it, no object created by those     *)
(* builds is left in the database, DHCP options records included.          *)
(***************************************************************************)
C32_CleanAfterBuilds == BuildsThenDestroy => CreatedRows(nb) = {}

\* one build, then the destroy, from a database without DHCP options records:
\* nothing the build created is left
CleanAfterOneBuild ==
    (BuildsThenDestroy /\ Len(hist) = 2 /\ hist[1].nb0.dhcp = {}) => CreatedRows(nb) = {}
\* a completed destroy after a build that had created objects
CleanAfterOneBuildReached ==
    /\ BuildsThenDestroy /\ Len(hist) = 2 /\ hist[1].nb0.dhcp = {}
    /\ CreatedRows(hist[2].nb0) # {} /\ CreatedRows(nb) = {}
\* two builds from an empty database, then the destroy
TwoBuildsThenDestroy ==
    (BuildsThenDestroy /\ Len(hist) = 3 /\ IsEmptyNb(hist[1].nb0) /\ hist[1].ok /\ hist[2].ok)
        => CreatedRows(nb) = {}

\* the database the first invocation of the behaviour found
FirstNb == IF hist # <<>> THEN hist[1].nb0 ELSE IF phase = "idle" THEN nb ELSE nb0
\* every state of the behaviour is reached from an empty lab by builds and
\* destroys, completed or interrupted
StartedEmpty == IsEmptyNb(FirstNb)
\* every port the tool created is on a switch that exists
PortsOnSwitches(db) == \A r \in db.lsp : r.tagged => ls_get(db, r.switch)
\* every router-side interface is on a router that exists
InterfacesOnRouters(db) == \A r \in db.lrp : lr_get(db, r.router)
\* every DHCP options binding of a switch refers to a record that exists
BindingsResolve(db) ==
    \A r \in db.ls : r.dhcpv4 # NoneV => \E q \in db.dhcp : q.uuid = Val(r.dhcpv4)
\* no destroy has run yet
OnlyBuilds == cmd # "destroy" /\ \A i \in 1..Len(hist) : hist[i].cmd = "build"

(***************************************************************************)
(* C33.  Referential integrity in every intermediate state: in every       *)
(* database state reached during builds and destroys that start from an    *)
(* empty or fully built lab, states left by an interrupted run included,   *)
(* every port the tool created is on a switch that exists, every           *)
(* router-side interface is on a router that exists, and every DHCP        *)
(* options binding refers to a record that exists.                         *)
(***************************************************************************)
C33_ReferentialIntegrity ==
    StartedEmpty => PortsOnSwitches(nb) /\ InterfacesOnRouters(nb) /\ BindingsResolve(nb)

\* the ports and the router-side interfaces are never orphaned
PortsAndInterfacesAttached == StartedEmpty => PortsOnSwitches(nb) /\ InterfacesOnRouters(nb)
\* a destroy is under way with a port's switch and an interface's router
\* in place
PortsAndInterfacesReached ==
    /\ StartedEmpty /\ InRun("destroy") /\ phase = "run"
    /\ \E r \in nb.lsp : r.tagged /\ ls_get(nb, r.switch)
    /\ \E r \in nb.lrp : lr_get(nb, r.router)
\* while only builds have run, every binding resolves
BindingsResolveInBuilds == (StartedEmpty /\ OnlyBuilds) => BindingsResolve(nb)
\* after a completed destroy every binding resolves: the bound switch is gone
BindingsResolveAfterDestroy ==
    (StartedEmpty /\ phase = "idle" /\ hist # <<>> /\ LastHist.cmd = "destroy" /\ LastHist.ok)
        => BindingsResolve(nb)
\* a destroy of a fully built lab keeps every binding resolving
BindingsResolveInDestroyOfBuilt ==
    (StartedEmpty /\ InRun("destroy") /\ Len(hist) = 1 /\ hist[1].cmd = "build" /\ hist[1].ok)
        => BindingsResolve(nb)

(***************************************************************************)
(* Two labs on one database: destroy of the lab "vlab" on a database that  *)
(* holds what a build of another lab, "lab2", created.                     *)
(***************************************************************************)
\* the other lab: one routed DHCP-enabled switch ls1 on 192.168.1.0/24
OtherLab ==
    [vpc |-> [name |-> "lab2", mac_prefix |-> Chars_e1ccff, id |-> 2, port_count |-> NoneV],
     switches |-> <<SwLs1>>]
OtherTopology == Val(BuildTopology(OtherLab, FixtureAttrs(OtherLab)).topology)
\* a DHCP-enabled switch named as the other lab's, on a subnet of its own
SwLabOwnSubnet == SwitchDesc("ls1", 1, "normal", "10.0.0", 0, 24, TRUE, TRUE, Some(1), NoneV)
LabConfigs ==
    {[vpc |-> Vpc(Chars_e1ccff), switches |-> q] :
        q \in {<<SwLs1>>, <<SwLs3>>, <<SwLabOwnSubnet>>, <<SwLs1, SwLs2>>, <<SwLs2, SwLs3>>}}

\* the builder is first given the topology of the other lab, on an empty
\* database
InitLabs ==
    /\ entry = "api"
    /\ config = OtherLab
    /\ topology = BuildTopology(config, FixtureAttrs(config)).topology
    /\ nb = EmptyNb
    /\ phase = "idle"
    /\ cmd = "none"
    /\ pc = 0
    /\ log = <<>>
    /\ exit_code = NoneV
    /\ hist = <<>>
    /\ nb0 = nb
    /\ faults = 0
    /\ steps = <<>>

\* the one build of the other lab
BuildOtherLab == config = OtherLab /\ hist = <<>> /\ ApiCall("build")

\* after it has completed, the builder is given the topology of the lab
OpenLab ==
    /\ config = OtherLab /\ phase = "idle"
    /\ hist # <<>> /\ hist[Len(hist)].ok
    /\ config' \in LabConfigs
    /\ topology' = BuildTopology(config', FixtureAttrs(config')).topology
    /\ hist' = <<>> /\ log' = <<>> /\ cmd' = "none" /\ pc' = 0 /\ steps' = <<>>
    /\ nb0' = nb
    /\ UNCHANGED <<entry, nb, phase, exit_code, faults>>

\* a build or a destroy of the lab
CallOnLab(c) == config # OtherLab /\ ApiCall(c)

NextLabs ==
    \/ BuildOtherLab
    \/ OpenLab
    \/ \E c \in {"build", "destroy"} : CallOnLab(c)
    \/ ApiReturn
    \/ CreateLogicalRouter
    \/ CreateLogicalSwitch
    \/ CreateDhcpOptions
    \/ CreateLogicalSwitchPort
    \/ ConnectSwitchToRouter
    \/ BuildReturn
    \/ DisconnectSwitchFromRouter
    \/ DeleteLogicalRouter
    \/ DeleteLogicalSwitchPort
    \/ DeleteDhcpOptions
    \/ DeleteLogicalSwitch
    \/ DestroyReturn

SpecLabs == InitLabs /\ [][NextLabs]_vars

\* the rows of db under the names the other lab derives
OtherLabNamedRows(db) ==
    LET sw == OtherTopology.switches[1]
        r == Val(OtherTopology.router) IN
    {x \in db.lr : x.name = r.full_name}
    \cup {x \in db.ls : x.name = sw.full_name}
    \cup {x \in db.lsp : x.name \in PortNames(sw) \cup {SwitchPortName(sw, r)}}
    \cup {x \in db.lrp : x.name = RouterPortName(sw, r)}
\* the DHCP options records of db the build of the other lab added: they
\* carry the options of its switch (server MAC of its VPC id)
OtherLabDhcpRows(db) ==
    {x \in db.dhcp : x.options = OtherTopology.switches[1].dhcp_options}
\* a switch of the lab with DHCP on the subnet of the other lab's switch
SharesCidr ==
    \E i \in SwitchIdx :
        /\ Topo.switches[i].dhcp_enable
        /\ Cidr(Topo.switches[i].subnet) = Cidr(OtherTopology.switches[1].subnet)

\* a destroy of the lab is at work
DestroyOfLab == config # OtherLab /\ InRun("destroy")

(***************************************************************************)
(* C34.  Isolation between labs: no step of a destroy of one lab deletes   *)
(* an object that a build of a lab with a different VPC name created,      *)
(* also when the two labs have switches on the same subnet CIDR.           *)
(***************************************************************************)
C34_LabIsolation ==
    [][DestroyOfLab => /\ OtherLabNamedRows(nb) \subseteq OtherLabNamedRows(nb')
                       /\ OtherLabDhcpRows(nb) \subseteq OtherLabDhcpRows(nb')]_vars

\* the named objects of the other lab are never deleted
LabIsolationNamed == [][DestroyOfLab => OtherLabNamedRows(nb) \subseteq OtherLabNamedRows(nb')]_vars
\* its DHCP options record is kept when no DHCP switch of the lab is on its CIDR
LabIsolationOwnSubnet ==
    [][(DestroyOfLab /\ ~SharesCidr) => OtherLabDhcpRows(nb) \subseteq OtherLabDhcpRows(nb')]_vars
\* a destroy of a built lab has returned with every object of the other lab
\* in place
LabIsolationReached ==
    /\ config # OtherLab
    /\ phase = "returned" /\ cmd = "destroy" /\ CreatedRows(nb0) # CreatedRows(nb)
    /\ Cardinality(OtherLabNamedRows(nb)) = 5 /\ OtherLabDhcpRows(nb) # {}

\* Topology(lab_config) has been called and has raised
DeriveRaised == Accepted /\ Len(log) >= 2 /\ log[2] = CallEv("Topology", "AttributeError")
\* Topology(lab_config) has been called
DeriveCalled == Accepted /\ Len(log) >= 2 /\ log[2].fn = "Topology"

(***************************************************************************)
(* C35.  Derivation is total on validated input: for every specification   *)
(* that validation accepts, Topology(lab_config) returns a topology        *)
(* without raising, also for switches with dhcp_enable set and for routed  *)
(* switches.                                                               *)
(***************************************************************************)
C35_DerivationTotal == DeriveCalled => Derived

\* derivation raises exactly for the specifications with a DHCP-enabled switch
DerivationRaisesOnDhcp ==
    DeriveCalled => (DeriveRaised <=> \E i \in CfgIdx : config.switches[i].dhcp_enable)
\* a routed switch without DHCP has been derived
DerivationRoutedReached ==
    Derived /\ \E i \in CfgIdx : config.switches[i].routed /\ ~config.switches[i].dhcp_enable

\* Logical Switch i of the topology is the one of descriptor i
SwitchOfDescriptor(i) ==
    /\ Topo.switches[i].name = config.switches[i].name
    /\ Topo.switches[i].id = config.switches[i].id
    /\ Topo.switches[i].subnet = config.switches[i].subnet
\* the descriptors have pairwise different names
NamesDistinct == \A i, j \in CfgIdx : i # j => config.switches[i].name # config.switches[j].name

(***************************************************************************)
(* C36.  No switch is lost in derivation: the derived topology has exactly *)
(* one Logical Switch for each switch descriptor, in specification order,  *)
(* so as many switches as descriptors, also when two descriptors have      *)
(* different ids and the same name.                                        *)
(***************************************************************************)
C36_NoSwitchLost ==
    Derived =>
        /\ Len(Topo.switches) = Len(config.switches)
        /\ \A i \in CfgIdx : SwitchOfDescriptor(i)

\* with pairwise different names no switch is lost
NoSwitchLostDistinctNames ==
    (Derived /\ NamesDistinct) =>
        /\ Len(Topo.switches) = Len(config.switches)
        /\ \A i \in CfgIdx : SwitchOfDescriptor(i)
\* two descriptors of different names have been derived
NoSwitchLostReached ==
    /\ Derived /\ NamesDistinct /\ Len(config.switches) = 2
    /\ Len(Topo.switches) = 2 /\ \A i \in CfgIdx : SwitchOfDescriptor(i)
\* of two descriptors of one name the topology keeps the second, alone
SameNameKeepsLast ==
    (Derived /\ Len(config.switches) = 2 /\ ~NamesDistinct) =>
        /\ Len(Topo.switches) = 1
        /\ Topo.switches[1].id = config.switches[2].id
        /\ Topo.switches[1].subnet = config.switches[2].subnet

\* the MAC of index 0 of switch sw: dhcp_server_mac, read with the VPC
\* attributes in place
IndexZeroMac(sw) == Val(dhcp_server_mac([sw EXCEPT !.vpc_attrs = FixtureAttrs(config)]).value)
\* the positions of the ports of the topology: <<switch, port>>
PortPositions == {<<i, j>> \in SwitchIdx \X (1..300) : j <= Len(Topo.switches[i].ports)}
MacAt(p) == Topo.switches[p[1]].ports[p[2]].mac

(***************************************************************************)
(* C37.  MAC uniqueness within a lab: in every derived topology the MACs   *)
(* of all ports of all switches are pairwise different, and no port MAC is *)
(* the index-0 (DHCP server / router gateway) MAC of any switch.           *)
(***************************************************************************)
C37_MacsDistinct ==
    Derived =>
        /\ \A p, q \in PortPositions : p # q => MacAt(p) # MacAt(q)
        /\ \A p \in PortPositions : \A k \in SwitchIdx : MacAt(p) # IndexZeroMac(Topo.switches[k])

\* a topology of two switches with ports of different MACs has been derived
C37_Witness ==
    /\ Derived /\ Len(Topo.switches) = 2
    /\ \A i \in SwitchIdx : Len(Topo.switches[i].ports) > 0
    /\ Topo.switches[1].ports[1].mac # Topo.switches[2].ports[1].mac
\* a switch with more than 250 ports has been derived
MacsDistinctManyPorts == Derived /\ \E i \in SwitchIdx : Len(Topo.switches[i].ports) > 250

(***************************************************************************)
(* build / destroy as running code: once called, the method goes on to its *)
(* next handler call, and a handler call returns or raises (commit waits   *)
(* for the backend no longer than its timeout).                            *)
(***************************************************************************)
RunStep ==
    \/ CreateLogicalRouter
    \/ CreateLogicalSwitch
    \/ CreateDhcpOptions
    \/ CreateLogicalSwitchPort
    \/ ConnectSwitchToRouter
    \/ BuildReturn
    \/ DisconnectSwitchFromRouter
    \/ DeleteLogicalRouter
    \/ DeleteLogicalSwitchPort
    \/ DeleteDhcpOptions
    \/ DeleteLogicalSwitch
    \/ DestroyReturn

\* an invocation, alone or after one earlier build
AloneOrAfterBuild == hist = <<>> \/ (Len(hist) = 1 /\ hist[1].cmd = "build")
InvokeCli(c) == AloneOrAfterBuild /\ CliStart(c)
InvokeApi(c) == AloneOrAfterBuild /\ ApiCall(c)

NextInvocation ==
    \/ \E c \in {"build", "destroy"} : InvokeCli(c)
    \/ LoadConfig
    \/ DeriveTopology
    \/ Connect
    \/ CliSuccess
    \/ CliExcept
    \/ \E c \in {"build", "destroy"} : InvokeApi(c)
    \/ ApiReturn
    \/ RunStep

SpecInvocation == Init /\ [][NextInvocation]_vars /\ WF_vars(RunStep)

RECURSIVE PortTotal(_, _)
PortTotal(topo, i) == IF i = 0 THEN 0 ELSE Len(topo.switches[i].ports) + PortTotal(topo, i - 1)
\* the objects of a derived topology: the router, the switches, a DHCP options
\* record for each DHCP-enabled switch, the ports, and an attachment for each
\* routed switch of a topology with a router
DerivedObjects(topo) ==
    (IF topo.router # NoneV THEN 1 ELSE 0)
    + Len(topo.switches)
    + Cardinality({i \in 1..Len(topo.switches) : topo.switches[i].dhcp_enable})
    + PortTotal(topo, Len(topo.switches))
    + Cardinality({i \in 1..Len(topo.switches) : topo.switches[i].routed /\ topo.router # NoneV})
\* the transactions the invocation has committed
Committed(l) == {i \in 1..Len(l) : l[i].ev = "commit" /\ l[i].ok}
\* the invocation is build or destroy at work on the derived topology
Invoked == \E c \in {"build", "destroy"} : InRun(c)
\* an invocation that has returned made one handler call for each step of its
\* loops, none of which failed; one that raised stopped at its first failed
\* commit, the last thing it did
EndsAsClaimed ==
    /\ (Invoked /\ phase = "returned") =>
          Len(Calls(log)) = Len(steps) /\ ~FailedCommit(log)
    /\ (Invoked /\ phase = "except") =>
          /\ log[Len(log)].ev = "commit" /\ ~log[Len(log)].ok
          /\ \A i \in 1..(Len(log) - 1) : log[i].ev = "commit" => log[i].ok
          /\ Len(Calls(log)) = pc
CommitBound == Invoked => Cardinality(Committed(log)) <= DerivedObjects(Topo)

(***************************************************************************)
(* C38.  Termination: every build or destroy invocation terminates, by     *)
(* completing after one handler call per derived object or by stopping at  *)
(* the first failed commit; the transactions committed in one invocation   *)
(* are never more than the derived objects (router, switches, DHCP         *)
(* records, ports, attachments).                                           *)
(***************************************************************************)
C38_Termination ==
    /\ (phase = "run") ~> (phase \in {"returned", "except"})
    /\ [](EndsAsClaimed /\ CommitBound)

\* a destroy has returned having committed one transaction per derived object
C38_Witness ==
    /\ InRun("destroy") /\ phase = "returned"
    /\ Cardinality(Committed(log)) = DerivedObjects(Topo)
    /\ HasRouter
\* an invocation has stopped at a failed commit
TerminationByFailureReached ==
    Invoked /\ phase = "except" /\ Committed(log) # {}
\* the objects counted are the steps of the loops
ObjectsAreSteps ==
    Invoked => /\ cmd = "destroy" => Len(steps) = DerivedObjects(Topo)
               /\ cmd = "build" => Len(steps) <= DerivedObjects(Topo)
\* counting an attachment only where the gateway resolved: the transaction
\* destroy commits for a routed switch without one is not covered
CommitBoundResolvedOnly ==
    Invoked =>
        Cardinality(Committed(log))
            <= DerivedObjects(Topo)
               - Cardinality({i \in SwitchIdx : Topo.switches[i].routed /\ HasRouter
                                                 /\ ~Attachable(Topo.switches[i])})

====
